---- MODULE Spec2Model ----
(***************************************************************************)
(* Request / token lifecycle of the Dramabox service                       *)
(* (src/src/utils/proxyManager.js, class Dramabox and its helpers).        *)
(*                                                                         *)
(* One language partition, one Dramabox instance of that language (the     *)
(* server keeps one instance per language), and a set of concurrent        *)
(* logical calls of Dramabox.request on it.  Every action is one           *)
(* run-to-completion step of the JavaScript event loop: the code between   *)
(* two awaits that suspend on I/O or on a timer.                           *)
(***************************************************************************)
EXTENDS Integers, Sequences, FiniteSets, TLC

\* ------------------------------------------------------------------------
\* CONFIG (proxyManager.js 67-90) and the literals of the token code
\* ------------------------------------------------------------------------
MAX_RETRIES == 3
INITIAL_RETRY_DELAY == 1000
MAX_RETRY_DELAY == 10000
RETRY_BACKOFF_MULTIPLIER == 2
CACHE_TTL_TOKEN == 3600
RETRYABLE_STATUS_CODES == {408, 429, 500, 502, 503, 504}
TOKEN_MARGIN_MS == 5 * 60 * 1000
TOKEN_LIFETIME_MS == 24 * 60 * 60 * 1000

\* ------------------------------------------------------------------------
\* Bounds of the model
\* ------------------------------------------------------------------------
MaxTokens == 3
MaxNow == 86400000
MaxAttemptArg == 10

\* Logical calls in flight at once: one under Spec, both under SpecConc.
Procs == {1, 2}

\* Instants the clock is sampled at: the boundaries of the shared-cache TTL
\* (1 h) and of the validity margin (24 h - 5 min) of a token minted at 0.
Clock == {t \in {0, 3600000, 3600001, 86099999, 86100000, 86400000} : t <= MaxNow}

\* ------------------------------------------------------------------------
\* Values
\* ------------------------------------------------------------------------
\* A token record (tokenData, 279-288).  id 0 is the absent token (null);
\* token / uid say whether res.data.data.user.token / .uid were present.
NoToken == [id |-> 0, expiry |-> 0, token |-> FALSE, uid |-> FALSE]

\* The shared node-cache entry token_<lang>: value and absolute deadline.
NoEntry == [val |-> NoToken, t |-> 0]

\* An error as the catch blocks see it: status 0 is "no error.response".
NoResponse == 0

\* ------------------------------------------------------------------------
\* Helper functions (104-116)
\* ------------------------------------------------------------------------
RECURSIVE Pow(_, _)
Pow(b, e) == IF e = 0 THEN 1 ELSE b * Pow(b, e - 1)

Min(a, b) == IF a < b THEN a ELSE b

getRetryDelay_mut(attempt) ==
  INITIAL_RETRY_DELAY * Pow(RETRY_BACKOFF_MULTIPLIER, attempt)

getRetryDelay(attempt) ==
  Min(INITIAL_RETRY_DELAY * Pow(RETRY_BACKOFF_MULTIPLIER, attempt), MAX_RETRY_DELAY)

isRetryableError_mut(status) ==
  status \in RETRYABLE_STATUS_CODES

isRetryableError(status) ==
  IF status = NoResponse THEN TRUE ELSE status \in RETRYABLE_STATUS_CODES

isTokenValid_mut(tok, t) ==
  IF tok.id = 0 THEN FALSE ELSE tok.expiry >= t + TOKEN_MARGIN_MS

isTokenValid(tok, t) ==
  IF tok.id = 0 THEN FALSE ELSE tok.expiry > t + TOKEN_MARGIN_MS

\* node-cache get: the value while the entry's deadline has not passed.
cacheGet(entry, t) ==
  IF entry.val.id # 0 /\ ~(entry.t < t) THEN entry.val ELSE NoToken

cacheSet(tok, ttl, t) == [val |-> tok, t |-> t + ttl * 1000]

\* ------------------------------------------------------------------------
\* State
\* ------------------------------------------------------------------------
VARIABLES
  tokenCache,   \* this.tokenCache of the instance (174)
  cache,        \* the entry token_<lang> of the module-wide NodeCache (95-99)
  now,          \* Date.now()
  nextId,       \* identity of the next token the upstream hands out
  proc,         \* per logical call: where it is suspended and its locals
  fnName,       \* helper applied last (pure-function checks)
  fnArg,        \* its arguments
  fnRet,        \* its result
  respCache,    \* the other entries of the NodeCache, by cache key
  op,           \* the cached operation in progress and its locals
  opCount,      \* operations the caller has completed
  pg,           \* the batchDownload in progress and its locals
  srv           \* the HTTP server (src/server.js): pool, limiters, exchange

vars == <<tokenCache, cache, now, nextId, proc, fnName, fnArg, fnRet,
          respCache, op, opCount, pg, srv>>
fnVars == <<fnName, fnArg, fnRet>>
extVars == <<respCache, op, opCount, pg, srv>>
sysVars == <<tokenCache, cache, now, nextId, proc>>

\* An upstream answer to a data call: HTTP status (0: none, the transport
\* failed) and the payload's success field.  NoReply: nothing answered yet.
NoReply == [status |-> -1, success |-> FALSE]
Reply(st, ok) == [status |-> st, success |-> ok]

DataStatuses == {400, 404, 429, 502, 503}
DataOutcomes ==
  {Reply(200, TRUE), Reply(200, FALSE), Reply(NoResponse, FALSE)}
    \cup {Reply(s, FALSE) : s \in DataStatuses}

\* An upstream answer to the bootstrap call: status, and which of
\* data.data.user, user.token and user.uid the body carries.
Boot(st, u, tk, id) == [status |-> st, user |-> u, token |-> tk, uid |-> id]
BootOutcomes ==
  {Boot(200, TRUE, TRUE, TRUE), Boot(200, TRUE, FALSE, TRUE),
   Boot(200, TRUE, TRUE, FALSE), Boot(200, FALSE, FALSE, FALSE),
   Boot(NoResponse, FALSE, FALSE, FALSE), Boot(403, FALSE, FALSE, FALSE),
   Boot(500, FALSE, FALSE, FALSE)}

\* Locals of one logical call of request():
\*   pc        idle | awaitBoot | mintDelay | awaitData | backoff | done | failed
\*             | minted | mintFailed (generateNewToken called by fetchBatch)
\*   attempt   the attempt parameter of the innermost request frame
\*   nested    the innermost frame was called from inside the try block of
\*             the attempt-0 frame (line 397)
\*   webfic    the isWebfic parameter
\*   mattempt  the attempt parameter of the innermost generateNewToken frame
\*   mctx      who awaits generateNewToken: "getToken" (369), "soft" (396)
\*             or "batch" (653)
\*   wait      the timer the call sleeps on (ms)
\*   sentTok   tokenData of the data call sent last
\*   tokSrc    the return statement that produced it: "memory" (316),
\*             "shared" (221), "minted" (295); "none" on the webfic surface
\*   lastResp  upstream's answer to it
\*   err       status of the error the catch block handled last
\*   dataCalls number of data calls issued (http.request, 387)
\*   bootCalls bootstrap calls issued by the running generateNewToken
IdleProc ==
  [pc |-> "idle", attempt |-> 0, nested |-> FALSE, webfic |-> FALSE,
   mattempt |-> 0, mctx |-> "getToken", wait |-> 0, sentTok |-> NoToken,
   tokSrc |-> "none",
   lastResp |-> NoReply, err |-> NoResponse, dataCalls |-> 0, bootCalls |-> 0]

\* A frame: the locals of a call together with the shared state it runs on.
Frame(p) == [me |-> proc[p], mem |-> tokenCache, sh |-> cache, nid |-> nextId]

Apply(p, r) ==
  /\ proc' = [proc EXCEPT ![p] = r.me]
  /\ tokenCache' = r.mem
  /\ cache' = r.sh
  /\ nextId' = r.nid

\* ------------------------------------------------------------------------
\* Dramabox.request / getToken / generateNewToken, each as the function
\* from the frame at its entry to the frame at its next suspension
\* ------------------------------------------------------------------------
\* this.http.request(config) (379-387)
sendData(r, tok) ==
  [r EXCEPT !.me.pc = "awaitData", !.me.sentTok = tok,
            !.me.dataCalls = @ + 1, !.me.lastResp = NoReply]

\* axios.post(bootstrap) (224-272)
sendBootstrap(r) ==
  [r EXCEPT !.me.pc = "awaitBoot", !.me.bootCalls = @ + 1]

\* this.tokenCache = null; cache.del(`token_${this.lang}`) (394-395, 415-416,
\* 651-652): both tiers of the token store emptied.  cache.del of an absent
\* key deletes nothing and returns 0.
invalidate_mut(r) == [r EXCEPT !.mem = r.sh.val, !.sh = NoEntry]
invalidate(r) == [r EXCEPT !.mem = NoToken, !.sh = NoEntry]

RECURSIVE request(_, _)

\* The code that awaits generateNewToken: request's non-webfic branch
\* (369-387), the soft-failure branch, which calls request(..., 1) (397), or
\* the catch block of fetchBatch (653), which goes on when the token is there.
tokenReturned(r, tok, t) ==
  IF r.me.mctx = "getToken"
  THEN sendData(r, tok)
  ELSE IF r.me.mctx = "batch"
       THEN [r EXCEPT !.me.pc = "minted"]
       ELSE request([r EXCEPT !.me.attempt = 1, !.me.nested = TRUE], t)

generateNewToken_mut(r, t) ==
  sendBootstrap(r)

generateNewToken(r, t) ==
  LET cachedToken == cacheGet(r.sh, t) IN
  IF cachedToken.id # 0 /\ cachedToken.expiry > t
  THEN tokenReturned([r EXCEPT !.mem = cachedToken, !.me.tokSrc = "shared"],
                     cachedToken, t)
  ELSE sendBootstrap(r)

getToken(r, t) ==
  IF isTokenValid(r.mem, t)
  THEN sendData([r EXCEPT !.me.tokSrc = "memory"], r.mem)
  ELSE generateNewToken([r EXCEPT !.me.mctx = "getToken", !.me.mattempt = 0,
                                  !.me.bootCalls = 0], t)

request(r, t) ==
  IF r.me.webfic
  THEN sendData([r EXCEPT !.me.tokSrc = "none"], NoToken)
  ELSE getToken(r, t)

\* The catch block of request (403-424); status is error.response.status,
\* NoResponse when the error has no response.  A frame called from the
\* attempt-0 try block throws into that frame's catch block.
RECURSIVE requestCatch(_, _)
requestCatch_mut(r, status) ==
  IF r.me.attempt < MAX_RETRIES /\ isRetryableError(status)
  THEN [r EXCEPT !.me.pc = "backoff", !.me.err = status,
                 !.me.wait = getRetryDelay(r.me.attempt)]
  ELSE IF r.me.nested
       THEN requestCatch([r EXCEPT !.me.nested = FALSE, !.me.attempt = 0],
                         NoResponse)
       ELSE [r EXCEPT !.me.pc = "failed", !.me.err = status]

requestCatch(r, status) ==
  IF r.me.attempt < MAX_RETRIES /\ isRetryableError(status)
  THEN LET r1 == IF status \in {502, 503}
                 THEN invalidate(r)
                 ELSE r
       IN [r1 EXCEPT !.me.pc = "backoff", !.me.err = status,
                     !.me.wait = getRetryDelay(r.me.attempt)]
  ELSE IF r.me.nested
       THEN requestCatch([r EXCEPT !.me.nested = FALSE, !.me.attempt = 0],
                         NoResponse)
       ELSE [r EXCEPT !.me.pc = "failed", !.me.err = status]

\* The catch block of generateNewToken (296-311); its throw lands in the
\* catch block of the request frame that awaits the token, or leaves
\* fetchBatch when that called it.
mintCatch_mut(r, status) ==
  IF r.me.mattempt <= MAX_RETRIES /\ isRetryableError(status)
  THEN [r EXCEPT !.me.pc = "mintDelay", !.me.wait = getRetryDelay(r.me.mattempt)]
  ELSE IF r.me.mctx = "batch"
       THEN [r EXCEPT !.me.pc = "mintFailed"]
       ELSE requestCatch(r, NoResponse)

mintCatch(r, status) ==
  IF r.me.mattempt < MAX_RETRIES /\ isRetryableError(status)
  THEN [r EXCEPT !.me.pc = "mintDelay", !.me.wait = getRetryDelay(r.me.mattempt)]
  ELSE IF r.me.mctx = "batch"
       THEN [r EXCEPT !.me.pc = "mintFailed"]
       ELSE requestCatch(r, NoResponse)

\* The bootstrap call resolved (274-295) or rejected (296).
bootstrapSettled_mut(r, o, t) ==
  IF o.status = 200
  THEN IF ~o.user
       THEN mintCatch(r, NoResponse)
       ELSE LET tokenData == [id |-> r.nid, expiry |-> t + TOKEN_LIFETIME_MS,
                              token |-> o.token, uid |-> o.uid]
            IN tokenReturned([r EXCEPT !.mem = tokenData,
                                       !.sh = IF cacheGet(r.sh, t).id # 0 THEN @
                                              ELSE cacheSet(tokenData, CACHE_TTL_TOKEN, t),
                                       !.nid = @ + 1, !.me.tokSrc = "minted"],
                             tokenData, t)
  ELSE mintCatch(r, o.status)

bootstrapSettled(r, o, t) ==
  IF o.status = 200
  THEN IF ~o.user
       THEN mintCatch(r, NoResponse)
       ELSE LET tokenData == [id |-> r.nid, expiry |-> t + TOKEN_LIFETIME_MS,
                              token |-> o.token, uid |-> o.uid]
            IN tokenReturned([r EXCEPT !.mem = tokenData,
                                       !.sh = cacheSet(tokenData, CACHE_TTL_TOKEN, t),
                                       !.nid = @ + 1, !.me.tokSrc = "minted"],
                             tokenData, t)
  ELSE mintCatch(r, o.status)

\* The data call resolved (389-402) or rejected (403).
dataSettled(r0, o, t) ==
  LET r == [r0 EXCEPT !.me.lastResp = o] IN
  IF o.status = 200
  THEN IF ~r.me.webfic /\ ~o.success
       THEN IF r.me.attempt = 0
            THEN generateNewToken(
                   [invalidate(r) EXCEPT !.me.mctx = "soft", !.me.mattempt = 0,
                                         !.me.bootCalls = 0], t)
            ELSE requestCatch(r, NoResponse)
       ELSE [r EXCEPT !.me.pc = "done"]
  ELSE requestCatch(r, o.status)

\* ------------------------------------------------------------------------
\* The cached operations (430-597, 740-915)
\* ------------------------------------------------------------------------
CACHE_TTL_DRAMA_LIST == 300
CACHE_TTL_DRAMA_DETAIL == 600
CACHE_TTL_CHAPTERS == 600
CACHE_TTL_CATEGORIES == 1800
CACHE_TTL_SEARCH == 180

MaxOpCalls == 2

OpNames ==
  {"getVip", "getStreamUrl", "getDramaDetail", "getDramaDetailV2",
   "getChapters", "getDramaList", "getCategories", "getBookFromCategories",
   "getRecommendedBooks", "rsearchDrama", "searchDramaIndex", "searchDrama"}

\* The surface an operation calls: request() signed, request() with
\* isWebfic = true, or its own axios.get loop.
OpSurface(n) ==
  IF n = "getStreamUrl" THEN "stream"
  ELSE IF n \in {"getDramaDetailV2", "getCategories", "getBookFromCategories"}
       THEN "webfic"
       ELSE "signed"

\* The TTL class each operation passes to cache.set.
OpTTL(n) ==
  CASE n \in {"getVip", "getDramaList", "getBookFromCategories",
              "getRecommendedBooks"} -> CACHE_TTL_DRAMA_LIST
    [] n \in {"getDramaDetail", "getDramaDetailV2"} -> CACHE_TTL_DRAMA_DETAIL
    [] n \in {"getChapters", "getStreamUrl"} -> CACHE_TTL_CHAPTERS
    [] n = "getCategories" -> CACHE_TTL_CATEGORIES
    [] n \in {"searchDramaIndex", "searchDrama"} -> CACHE_TTL_SEARCH
    [] OTHER -> 0

\* rsearchDrama is the one operation that neither reads nor writes the cache.
OpCached(n) == n # "rsearchDrama"

\* getVip and getDramaDetail store and return the body request() resolved
\* with; the others build a fresh object or array from it.
OpRaw(n) == n \in {"getVip", "getDramaDetail"}

\* getStreamUrl and getDramaDetail reject a missing argument first.
OpValidates(n) == n \in {"getStreamUrl", "getDramaDetail"}

\* Arguments: 0 is a falsy argument, 1 a truthy one; the
\* operations without parameters are called with 0.
ArgValues == {0, 1}
OpArgs(n) ==
  IF n \in {"getVip", "getRecommendedBooks", "searchDramaIndex"}
  THEN {0} ELSE ArgValues

\* A cache key: the operation's prefix and its arguments (the language is
\* the instance's).
Keys == {<<n, a>> : n \in {m \in OpNames : OpCached(m)}, a \in ArgValues}

\* Response bodies: 0 is a falsy body (empty string, null), 1 and 2 are
\* two different objects.  A value an operation returns is the body itself
\* or something built from it.
Bodies == {0, 1, 2}
Undefined == [built |-> FALSE, body |-> 0]
Truthy(v) == v.built \/ v.body # 0
opResult(n, d) == [built |-> ~OpRaw(n), body |-> d]

\* NodeCache get and set on one entry, flushAll on all of them.
NoRespEntry == [has |-> FALSE, val |-> Undefined, t |-> 0]
respGet(entry, t) ==
  IF entry.has /\ ~(entry.t < t) THEN entry.val ELSE Undefined
respSet(v, ttl, t) == [has |-> TRUE, val |-> v, t |-> t + ttl * 1000]
\* get deletes the entry it finds expired.
respAfterGet(rc, k, t) ==
  IF rc[k].has /\ rc[k].t < t THEN [rc EXCEPT ![k] = NoRespEntry] ELSE rc
flushAll == [k \in Keys |-> NoRespEntry]

\* Locals of the operation in progress:
\*   pc       idle | request | streamGet | streamDelay | returned | thrown
\*   name     the operation, kept while idle after its first call
\*   hit      it returned the cached value
\*   ret      the value it returned
\*   attempt  loop counter of getStreamUrl
\*   wait     the timer getStreamUrl sleeps on (ms)
\*   calls    axios.get calls getStreamUrl issued
\*   end      how its request() settled: done (resolved) | failed (rejected)
\*   last     the upstream answer that settled it; for getStreamUrl the
\*            answer to its last GET, success standing for rawData.chapter
\*   stale    its cache lookup found an entry past its deadline
IdleOp == [pc |-> "idle", name |-> "none", arg |-> 0, hit |-> FALSE,
           ret |-> Undefined, attempt |-> 0, wait |-> 0, calls |-> 0,
           end |-> "none", last |-> NoReply, stale |-> FALSE]

\* Answers of the stream host: status, and whether the body has a chapter.
Stream(st, ch) == [status |-> st, chapter |-> ch]
StreamOutcomes ==
  {Stream(200, TRUE), Stream(200, FALSE), Stream(NoResponse, FALSE),
   Stream(404, FALSE), Stream(503, FALSE)}

\* What an operation does once its request() settled: cache and return the
\* result, or let the rejection through.  o0 is the operation, rc the
\* response cache, me the request's locals, d the body.
opSettled(o0, rc, me, d, t) ==
  LET v == opResult(o0.name, d)
      k == <<o0.name, o0.arg>>
      o1 == [o0 EXCEPT !.end = me.pc, !.last = me.lastResp] IN
  IF me.pc = "done"
  THEN [op |-> [o1 EXCEPT !.pc = "returned", !.ret = v],
        rc |-> IF OpCached(o0.name)
               THEN [rc EXCEPT ![k] = respSet(v, OpTTL(o0.name), t)] ELSE rc]
  ELSE IF me.pc = "failed"
       THEN [op |-> [o1 EXCEPT !.pc = "thrown"], rc |-> rc]
       ELSE [op |-> o0, rc |-> rc]

\* One pass of getStreamUrl's loop settled (483-523).
streamSettled(o0, rc, o, d, t) ==
  LET v == opResult(o0.name, d)
      k == <<o0.name, o0.arg>>
      status == IF o.status = 200 THEN NoResponse ELSE o.status
      o1 == [o0 EXCEPT !.last = Reply(o.status, o.chapter)] IN
  IF o.status = 200 /\ o.chapter
  THEN [op |-> [o1 EXCEPT !.pc = "returned", !.ret = v, !.end = "done"],
        rc |-> [rc EXCEPT ![k] = respSet(v, CACHE_TTL_CHAPTERS, t)]]
  ELSE IF o0.attempt < MAX_RETRIES /\ isRetryableError(status)
       THEN [op |-> [o1 EXCEPT !.pc = "streamDelay",
                               !.wait = getRetryDelay(o0.attempt)],
             rc |-> rc]
       ELSE [op |-> [o1 EXCEPT !.pc = "thrown", !.end = "failed"], rc |-> rc]

\* The cache lookup that opens an operation (432-433 and its copies).
cacheHit_mut(n, a, rc, t) ==
  OpCached(n) /\ rc[<<n, a>>].has
cacheHit(n, a, rc, t) ==
  OpCached(n) /\ Truthy(respGet(rc[<<n, a>>], t))

\* ------------------------------------------------------------------------
\* batchDownload (599-738)
\* ------------------------------------------------------------------------
MaxChapters == 12

\* What the first window reports, and how many records a window carries.
Totals == {0, 6, MaxChapters}
Pays == {0, 6, 11}
ItemCounts == {0, 1, 2, 6}

\* The value request() resolves with: has is data?.data, items the length
\* of chapterList, total and pay the chapterCount and payChapterNum.  NoData
\* is also the null fetchBatch returns.
NoData == [has |-> FALSE, items |-> 0, total |-> 0, pay |-> 0]
Window(n, c, p) == [has |-> TRUE, items |-> n, total |-> c, pay |-> p]
PgBodies ==
  {NoData} \cup {Window(n, c, p) : n \in ItemCounts, c \in Totals, p \in Pays}

\* The records of the window asked at index: chapters index, index + 1, ...;
\* chapterName tells the window a record came from.
chapterList(index, n) ==
  [j \in 1..n |-> [chapterId |-> index + j - 1, chapterIndex |-> index + j - 1,
                  chapterName |-> index, cdnList |-> <<>>]]

\* result.forEach((item) => uniqueMap.set(item.chapterId, item)) (702-703):
\* a Map keeps a key at the place of its first insertion and the value of
\* its last.  firstSet: the places where a key is inserted; lastSet(i): the
\* place where the key of place i is set last.
firstSet(items) ==
  {i \in 1..Len(items) :
     \A j \in 1..(i - 1) : items[j].chapterId # items[i].chapterId}
lastSet(items, i) ==
  CHOOSE j \in 1..Len(items) :
    /\ items[j].chapterId = items[i].chapterId
    /\ \A k \in (j + 1)..Len(items) : items[k].chapterId # items[i].chapterId
\* The k-th smallest member of a set of places.
nth(S, k) == CHOOSE i \in S : Cardinality({j \in S : j < i}) = k - 1

uniqueMap_mut(items) ==
  [k \in 1..Cardinality(firstSet(items)) |-> items[nth(firstSet(items), k)]]
uniqueMap(items) ==
  [k \in 1..Cardinality(firstSet(items)) |->
     items[lastSet(items, nth(firstSet(items), k))]]

\* .sort((a, b) => (a.chapterIndex || 0) - (b.chapterIndex || 0)) (706):
\* a stable sort; a chapterIndex of 0 stands for an absent one as well.
\* rank(items, i): the place the record of place i is moved to.
sortKey(ch) == ch.chapterIndex
rank(items, i) ==
  1 + Cardinality({j \in 1..Len(items) :
                     \/ sortKey(items[j]) < sortKey(items[i])
                     \/ sortKey(items[j]) = sortKey(items[i]) /\ j < i})

sort_mut(items) == items
sort(items) ==
  [k \in 1..Len(items) |->
     items[CHOOSE i \in 1..Len(items) : rank(items, i) = k]]

\* Array.prototype.find with a test s[i][key] === val: the index of the
\* first such element, 0 for none.
find(s, key, val) ==
  IF \E i \in 1..Len(s) : s[i][key] = val
  THEN CHOOSE i \in 1..Len(s) :
         s[i][key] = val /\ \A j \in 1..(i - 1) : s[j][key] # val
  ELSE 0

\* The choice of the video path of one record (708-719).  A cdn without
\* videoPathList has the empty one; a path "" is a falsy videoPath.

videoPath_mut(ch) ==
  LET c == IF find(ch.cdnList, "isDefault", 1) # 0
           THEN find(ch.cdnList, "isDefault", 1)
           ELSE IF ch.cdnList # <<>> THEN 1 ELSE 0
      l == IF c = 0 THEN <<>> ELSE ch.cdnList[c].videoPathList
      v == IF find(l, "isDefault", 1) # 0 THEN find(l, "isDefault", 1)
           ELSE IF find(l, "quality", 720) # 0 THEN find(l, "quality", 720)
           ELSE IF find(l, "quality", 1080) # 0 THEN find(l, "quality", 1080)
           ELSE IF l # <<>> THEN 1 ELSE 0
  IN IF v = 0 \/ l[v].videoPath = "" THEN "N/A" ELSE l[v].videoPath

videoPath(ch) ==
  LET c == IF find(ch.cdnList, "isDefault", 1) # 0
           THEN find(ch.cdnList, "isDefault", 1)
           ELSE IF ch.cdnList # <<>> THEN 1 ELSE 0
      l == IF c = 0 THEN <<>> ELSE ch.cdnList[c].videoPathList
      v == IF find(l, "isDefault", 1) # 0 THEN find(l, "isDefault", 1)
           ELSE IF find(l, "quality", 1080) # 0 THEN find(l, "quality", 1080)
           ELSE IF find(l, "quality", 720) # 0 THEN find(l, "quality", 720)
           ELSE IF l # <<>> THEN 1 ELSE 0
  IN IF v = 0 \/ l[v].videoPath = "" THEN "N/A" ELSE l[v].videoPath

\* finalResult (705-727): the records deduplicated, then sorted, then
\* mapped, each stage bound once.
mapped(sorted) ==
  [i \in 1..Len(sorted) |->
     [chapterId |-> sorted[i].chapterId, chapterIndex |-> sorted[i].chapterIndex,
      chapterName |-> sorted[i].chapterName, videoPath |-> videoPath(sorted[i])]]

finalResult(result) ==
  CHOOSE final \in
    {mapped(sorted) :
       sorted \in {sort(unique) :
                     unique \in {uniqueMap(items) : items \in {result}}}} : TRUE

\* Locals of batchDownload and of the fetchBatch frames it has open:
\*   pc        idle | request (fetchBatch awaits this.request) | mint
\*             (fetchBatch awaits generateNewToken) | d1500 | d2000 | d4000
\*             | d800 (the four delays) | returned | rejected
\*   mode      the fetchBatch frame that awaits: outer (isRetry false),
\*             paywall (657) or recovery (661)
\*   first     the outer fetch is the one of line 667
\*   currentIdx  index of the outer fetch (1 for the first)
\*   ret       the list the promise resolved with
\*   threw     the catch block of line 734 ran
\*   fetches   calls of fetchBatch made by the while loop
\*   got       items of the answer the outer frame saw last, -1 for none
\*   recoveries, refetches  recoveries started and recovery fetches made
\*             for the current outer fetch
\*   allItems  every window batchDownload has got so far had a record
\*   lastIdx, idxFetches  the index the while loop fetched last and how many
\*             times in a row it has fetched it
IdlePg ==
  [pc |-> "idle", mode |-> "outer", first |-> TRUE, currentIdx |-> 0,
   totalChapters |-> 0, savedPayChapterNum |-> 0, retryLoopCount |-> 0,
   result |-> <<>>, ret |-> <<>>, threw |-> FALSE, fetches |-> 0,
   got |-> -1, recoveries |-> 0, refetches |-> 0, lastIdx |-> 0,
   idxFetches |-> 0, allItems |-> TRUE]

\* A batchDownload together with the request frame it runs on.
PF(g, r) == [pg |-> g, r |-> r]

\* fetchBatch up to its await (608-625).
fetchBatch(g, r, mode, t) ==
  PF([g EXCEPT !.pc = "request", !.mode = mode,
               !.refetches = IF mode = "recovery" THEN @ + 1 ELSE @],
     request([r EXCEPT !.me = IdleProc], t))

\* The catch block of line 734.
outerCatch_mut(g, r) ==
  PF([g EXCEPT !.pc = "rejected", !.threw = TRUE],
     [r EXCEPT !.me = IdleProc])
outerCatch(g, r) ==
  PF([g EXCEPT !.pc = "returned", !.ret = <<>>, !.threw = TRUE],
     [r EXCEPT !.me = IdleProc])

\* Lines 701-732.
finish_mut(g, r) ==
  PF([g EXCEPT !.pc = "returned", !.ret = mapped(sort(g.result))],
     [r EXCEPT !.me = IdleProc])
finish(g, r) ==
  PF([g EXCEPT !.pc = "returned", !.ret = finalResult(g.result)],
     [r EXCEPT !.me = IdleProc])

\* while (currentIdx <= totalChapters) (678-679)
loopHead_mut(g, r, t) ==
  IF g.currentIdx <= g.totalChapters + 5
  THEN fetchBatch([g EXCEPT !.fetches = @ + 1, !.got = -1, !.recoveries = 0,
                            !.refetches = 0, !.lastIdx = g.currentIdx,
                            !.idxFetches = IF g.lastIdx = g.currentIdx
                                           THEN @ + 1 ELSE 1],
                   r, "outer", t)
  ELSE finish(g, r)
loopHead(g, r, t) ==
  IF g.currentIdx <= g.totalChapters
  THEN fetchBatch([g EXCEPT !.fetches = @ + 1, !.got = -1, !.recoveries = 0,
                            !.refetches = 0, !.lastIdx = g.currentIdx,
                            !.idxFetches = IF g.lastIdx = g.currentIdx
                                           THEN @ + 1 ELSE 1],
                   r, "outer", t)
  ELSE finish(g, r)

\* What batchDownload does with the value of an outer fetchBatch (669-698).
afterOuterFetch_mut(g1, r, data, t) ==
  LET items == IF data.has THEN data.items ELSE 0
      list == chapterList(g1.currentIdx, items)
      r0 == [r EXCEPT !.me = IdleProc]
      g == [g1 EXCEPT !.allItems = @ /\ items > 0] IN
  IF g.first
  THEN IF data.has
       THEN loopHead([g EXCEPT !.first = FALSE, !.totalChapters = data.total,
                               !.savedPayChapterNum = data.pay,
                               !.result = @ \o list, !.currentIdx = 6,
                               !.retryLoopCount = 0], r0, t)
       ELSE finish(g, r0)
  ELSE IF items > 0
       THEN PF([g EXCEPT !.result = @ \o list, !.currentIdx = @ + 5,
                         !.retryLoopCount = 0, !.pc = "d800"], r0)
       ELSE IF g.retryLoopCount + 1 >= 4
            THEN PF([g EXCEPT !.currentIdx = @ + 5, !.retryLoopCount = 0,
                              !.pc = "d800"], r0)
            ELSE PF([g EXCEPT !.retryLoopCount = @ + 1, !.pc = "d4000"], r0)

afterOuterFetch(g1, r, data, t) ==
  LET items == IF data.has THEN data.items ELSE 0
      list == chapterList(g1.currentIdx, items)
      r0 == [r EXCEPT !.me = IdleProc]
      g == [g1 EXCEPT !.allItems = @ /\ items > 0] IN
  IF g.first
  THEN IF data.has
       THEN loopHead([g EXCEPT !.first = FALSE, !.totalChapters = data.total,
                               !.savedPayChapterNum = data.pay,
                               !.result = @ \o list, !.currentIdx = 6,
                               !.retryLoopCount = 0], r0, t)
       ELSE finish(g, r0)
  ELSE IF items > 0
       THEN PF([g EXCEPT !.result = @ \o list, !.currentIdx = @ + 5,
                         !.retryLoopCount = 0, !.pc = "d800"], r0)
       ELSE IF g.retryLoopCount + 1 >= 3
            THEN PF([g EXCEPT !.currentIdx = @ + 5, !.retryLoopCount = 0,
                              !.pc = "d800"], r0)
            ELSE PF([g EXCEPT !.retryLoopCount = @ + 1, !.pc = "d4000"], r0)

\* A fetchBatch frame returned data (or null).
fetchReturned(g, r, data, t) ==
  IF g.mode = "paywall"
  THEN PF([g EXCEPT !.pc = "d1500"], [r EXCEPT !.me = IdleProc])
  ELSE afterOuterFetch(g, r, data, t)

\* Lines 656-661, once generateNewToken returned.
afterMint(g, r, t) ==
  IF g.savedPayChapterNum > 0 /\ g.currentIdx # g.savedPayChapterNum
  THEN fetchBatch(g, r, "paywall", t)
  ELSE PF([g EXCEPT !.pc = "d2000"], [r EXCEPT !.me = IdleProc])

\* generateNewToken, awaited by fetchBatch, moved to frame r.
mintStep(g, r, t) ==
  IF r.me.pc = "minted" THEN afterMint(g, r, t)
  ELSE IF r.me.pc = "mintFailed" THEN outerCatch(g, r)
  ELSE PF([g EXCEPT !.pc = "mint"], r)

\* The catch block of fetchBatch (648-663).
fetchCatch_rethrow(g, r, t) ==
  IF g.mode = "outer"
  THEN mintStep([g EXCEPT !.recoveries = @ + 1],
                generateNewToken(
                  [invalidate(r) EXCEPT
                     !.me = [IdleProc EXCEPT !.mctx = "batch"]], t), t)
  ELSE IF g.mode = "paywall" THEN fetchReturned(g, r, NoData, t)
  ELSE outerCatch(g, r)

fetchCatch_mut(g, r, t) ==
  mintStep([g EXCEPT !.recoveries = @ + 1],
           generateNewToken(
             [invalidate(r) EXCEPT
                !.me = [IdleProc EXCEPT !.mctx = "batch"]], t), t)

fetchCatch(g, r, t) ==
  IF g.mode = "outer"
  THEN mintStep([g EXCEPT !.recoveries = @ + 1],
                generateNewToken(
                  [invalidate(r) EXCEPT
                     !.me = [IdleProc EXCEPT !.mctx = "batch"]], t), t)
  ELSE fetchReturned(g, r, NoData, t)

\* The request of a fetchBatch frame settled with body data (626-647).
fetchSettled(g0, r, data, t) ==
  LET index == IF g0.mode = "paywall" THEN g0.savedPayChapterNum
               ELSE g0.currentIdx
      isRetry == g0.mode # "outer"
      length == IF data.has THEN data.items ELSE 0
      isEndOfBook == index + 5 >= g0.totalChapters /\ g0.totalChapters # 0
      g == IF isRetry \/ r.me.pc = "failed" THEN g0
           ELSE [g0 EXCEPT !.got = length] IN
  IF r.me.pc = "failed"
  THEN fetchCatch(g, r, t)
  ELSE IF length <= 2 /\ index # g.savedPayChapterNum /\ ~isRetry /\ ~isEndOfBook
       THEN fetchCatch(g, r, t)
       ELSE IF length = 0 /\ index # g.savedPayChapterNum
            THEN fetchCatch(g, r, t)
            ELSE fetchReturned(g, r, data, t)

\* The request or the generateNewToken that batchDownload waits for moved
\* to frame r; data is the body when the request resolved.
pagerStep(g, r, data, t) ==
  IF g.pc = "mint" THEN mintStep(g, r, t)
  ELSE IF r.me.pc \in {"done", "failed"} THEN fetchSettled(g, r, data, t)
  ELSE PF(g, r)

\* One of the delays elapsed (658, 660, 693, 696).
delayDone(g, r, t) ==
  CASE g.pc = "d1500" -> PF([g EXCEPT !.pc = "d2000"], r)
    [] g.pc = "d2000" -> fetchBatch(g, r, "recovery", t)
    [] g.pc = "d4000" -> PF([g EXCEPT !.pc = "d800"], r)
    [] OTHER -> loopHead(g, r, t)

\* ------------------------------------------------------------------------
\* The HTTP server (src/server.js)
\* ------------------------------------------------------------------------
\* Parameter values as the router hands them over: strings, written as
\* sequences of characters, and undefined for an absent query parameter.
Digits == {"0", "1", "2", "3", "4", "5", "6", "7", "8", "9"}
Undef == <<"undefined">>
Strings ==
  {<<>>, <<"1">>, <<"a">>, <<" ">>, <<"1", "2">>, <<" ", "1">>, <<"1", "a">>}
NaN == -1

\* !x of a parameter: undefined and "" are falsy, any other string truthy.
falsy(x) == x = Undef \/ x = <<>>

\* String.prototype.trim.
trim(x) ==
  IF \A i \in 1..Len(x) : x[i] = " " THEN <<>>
  ELSE LET a == CHOOSE i \in 1..Len(x) :
                  x[i] # " " /\ \A j \in 1..(i - 1) : x[j] = " "
           b == CHOOSE i \in 1..Len(x) :
                  x[i] # " " /\ \A j \in (i + 1)..Len(x) : x[j] = " "
       IN SubSeq(x, a, b)

\* The value of a string of decimal digits.
RECURSIVE digitsValue(_)
digitsValue(x) ==
  IF x = <<>> THEN 0
  ELSE 10 * digitsValue(SubSeq(x, 1, Len(x) - 1))
         + (IF x[Len(x)] = "1" THEN 1 ELSE 0)

\* Number(x), the coercion isNaN applies: white space is trimmed, the empty
\* string is 0, undefined is NaN.
toNumber(x) ==
  IF x = Undef THEN NaN
  ELSE IF trim(x) = <<>> THEN 0
       ELSE IF \A i \in 1..Len(trim(x)) : trim(x)[i] \in Digits
            THEN digitsValue(trim(x)) ELSE NaN

isNaN(x) == toNumber(x) = NaN

\* parseInt(x): leading white space is skipped and the longest prefix of
\* digits is read; NaN when there is none.
parseInt(x) ==
  IF x = Undef THEN NaN
  ELSE LET k == Cardinality({i \in 1..Len(x) : \A j \in 1..i : x[j] = " "})
           rest == SubSeq(x, k + 1, Len(x))
           n == Cardinality({i \in 1..Len(rest) :
                               \A j \in 1..i : rest[j] \in Digits})
       IN IF n = 0 THEN NaN ELSE digitsValue(SubSeq(rest, 1, n))

\* validateRequired(params, required) (164-170): the missing keys, as a set;
\* the empty set stands for the null it returns.
validateRequired(params, required) ==
  {key \in required : falsy(params[key])}

\* An error object: error.response.status (0: no response), error.code and
\* error.message.
Err(st, c, m) == [response |-> st, code |-> c, message |-> m]

\* The errors axios rejects a call with, and the one request() makes of an
\* answer with success false (399), whose message is the upstream's own:
\* a text that has the word timeout stands for any such text.
AxiosErrors ==
  {Err(0, "ECONNABORTED", "timeout of 30000ms exceeded"),
   Err(0, "ECONNABORTED", "timeout of 15000ms exceeded"),
   Err(0, "ECONNRESET", "socket hang up"),
   Err(404, "ERR_BAD_REQUEST", "Request failed with status code 404"),
   Err(429, "ERR_BAD_REQUEST", "Request failed with status code 429"),
   Err(500, "ERR_BAD_RESPONSE", "Request failed with status code 500")}
SoftErrors ==
  {Err(0, "none", "Falha na requisição da API"),
   Err(0, "none", "session timeout")}

\* formatError(error, context) (116-165), without the prefix [context]: the
\* contexts are the endpoint paths, "Geração de token" and "Stream URL".
formatError(error) ==
  IF error.response # 0
  THEN CASE error.response = 404 -> "Não encontrado - Dados não localizados"
         [] error.response = 429 ->
              "Muitas requisições - Limite de taxa atingido, tente novamente mais tarde"
         [] error.response = 500 ->
              "Erro interno do servidor - Problema temporário"
         [] OTHER -> "HTTP"
  ELSE CASE error.code = "ECONNABORTED" ->
              "Tempo de requisição esgotado - Conexão demorou demais"
         [] error.code = "ECONNRESET" ->
              "Conexão redefinida - Conexão foi interrompida"
         [] OTHER -> error.message

\* throw new Error(formatError(error, endpoint)) (423, also 310 and 522): the
\* error a core operation rejects with when its upstream call failed for
\* good with error.
requestThrow(error) == Err(0, "none", formatError(error))

\* err.message.includes("timeout"), on the messages of the model.
includesTimeout(m) ==
  m \in {"timeout of 30000ms exceeded", "timeout of 15000ms exceeded",
        "session timeout"}

\* A response: HTTP status, the code of the envelope ("OK" for success), the
\* length of data and meta.total, -1 where the envelope has none.
Res(st, c, n, total) == [status |-> st, code |-> c, n |-> n, total |-> total]
NoRes == Res(0, "none", -1, -1)

\* The global error handler (495-531); every error of the model has the name
\* Error.
errorHandler(err) ==
  IF err.code = "ECONNABORTED" \/ includesTimeout(err.message)
  THEN Res(408, "REQUEST_TIMEOUT", -1, -1)
  ELSE IF err.response = 429
       THEN Res(429, "UPSTREAM_RATE_LIMIT", -1, -1)
       ELSE Res(500, "INTERNAL_ERROR", -1, -1)

\* The routes (211-476) and the handler of unmatched paths (483-492).
Routes ==
  {"/api/search", "/api/home", "/api/vip", "/api/detail/:bookId/v2",
   "/api/chapters/:bookId", "/api/stream", "/download/:bookId",
   "/api/categories", "/api/category/:id", "/api/recommend",
   "/api/generate-header", "*"}
PathParamRoutes ==
  {"/api/detail/:bookId/v2", "/api/chapters/:bookId", "/download/:bookId",
   "/api/category/:id"}
\* app.use("/api/", limiter) (82)
underApi(route) == route \notin {"/download/:bookId", "*"}

Langs == {"pt", "en"}
Ips == {1, 2}

\* A request: route, client address, the lang of the query (default "pt"),
\* p1 the keyword, bookId or id and p2 the episode, as the router parsed them.
Rq(route, ip, lang, p1, p2) ==
  [route |-> route, ip |-> ip, lang |-> lang, p1 |-> p1, p2 |-> p2]
NoRq == Rq("none", 0, "none", Undef, Undef)

\* The validation a handler opens with (216-221, 267-273, 289-295, 314-333,
\* 359-365, 414-423): TRUE when it answers 400.
invalid(rq) ==
  CASE rq.route = "/api/search" ->
         validateRequired([keyword |-> rq.p1], {"keyword"}) # {}
    [] rq.route = "/api/stream" ->
         \/ validateRequired([bookId |-> rq.p1, episode |-> rq.p2],
                             {"bookId", "episode"}) # {}
         \/ isNaN(rq.p1) \/ isNaN(rq.p2)
    [] rq.route \in PathParamRoutes -> falsy(rq.p1) \/ isNaN(rq.p1)
    [] OTHER -> FALSE

\* How the operation a handler awaits settles: resolved with a list of n
\* records (or an object, n = -1), or rejected with an error.
MaxList == 2
NoOutcome == [kind |-> "none", n |-> -1, cause |-> Err(0, "none", "none"),
              err |-> Err(0, "none", "none")]
Resolved(n) == [NoOutcome EXCEPT !.kind = "resolved", !.n = n]
Rejected(cause, err) ==
  [NoOutcome EXCEPT !.kind = "rejected", !.cause = cause, !.err = err]

\* getStreamUrl rejects before any call when !bookId || !episode (454-456).
StreamArgError ==
  Err(0, "none", "Parâmetro bookId e episode são obrigatórios.")

\* The outcomes of the operation of a route: batchDownload never rejects
\* (734-737); the others resolve or reject with the error of request().
Outcomes(rq) ==
  CASE rq.route = "/download/:bookId" -> {Resolved(n) : n \in 0..MaxList}
    [] rq.route = "/api/stream" /\ parseInt(rq.p2) \in {NaN, 0} ->
         {Rejected(StreamArgError, StreamArgError)}
    [] rq.route \in {"/api/chapters/:bookId", "/api/categories",
                     "/api/recommend"} ->
         {Resolved(n) : n \in 0..MaxList}
           \cup {Rejected(e, requestThrow(e)) : e \in AxiosErrors \cup SoftErrors}
    [] OTHER ->
         {Resolved(-1)}
           \cup {Rejected(e, requestThrow(e)) : e \in AxiosErrors \cup SoftErrors}

\* What a handler answers when its operation resolved (230-475).
success_mut(rq, n) ==
  CASE rq.route \in {"/api/chapters/:bookId", "/api/categories",
                     "/api/recommend", "/download/:bookId"} -> Res(200, "OK", n, n)
    [] OTHER -> Res(200, "OK", n, -1)
success(rq, n) ==
  CASE rq.route = "/download/:bookId" ->
         IF n = 0 THEN Res(404, "NOT_FOUND", -1, -1) ELSE Res(200, "OK", n, n)
    [] rq.route \in {"/api/chapters/:bookId", "/api/categories",
                     "/api/recommend"} -> Res(200, "OK", n, n)
    [] OTHER -> Res(200, "OK", n, -1)

\* express-rate-limit with its memory store: hits and window end per key;
\* a hit after the window's end opens a new window; a request is refused
\* when its hit is beyond max.
WINDOW_MS == 60 * 1000
API_MAX == 100
DOWNLOAD_MAX == 5
NoHits == [hits |-> [i \in Ips |-> 0], reset |-> [i \in Ips |-> 0]]
rateLimit_mut(lim, key, max, t) ==
  LET h == IF lim.reset[key] <= t THEN 1 ELSE lim.hits[key] + 1 IN
  [lim |-> [hits |-> [i \in Ips |-> h],
            reset |-> [lim.reset EXCEPT ![key] =
                         IF lim.reset[key] <= t THEN t + WINDOW_MS ELSE @]],
   limited |-> h > max]
rateLimit(lim, key, max, t) ==
  LET h == IF lim.reset[key] <= t THEN 1 ELSE lim.hits[key] + 1 IN
  [lim |-> [hits |-> [lim.hits EXCEPT ![key] = h],
            reset |-> [lim.reset EXCEPT ![key] =
                         IF lim.reset[key] <= t THEN t + WINDOW_MS ELSE @]],
   limited |-> h > max]

\* req.setTimeout(30000, ...) (85-96): the socket of a request that stays
\* idle that long is answered 408.
SOCKET_TIMEOUT == 30000
\* CONFIG.REQUEST_TIMEOUT and CONFIG.TOKEN_TIMEOUT (85-86): axios rejects a
\* call with ECONNABORTED when that long has passed since the call began, so
\* an operation that failed of it has lasted that long at least.
REQUEST_TIMEOUT == 30000
TOKEN_TIMEOUT == 15000
minDuration(error) ==
  CASE error.message = "timeout of 30000ms exceeded" -> REQUEST_TIMEOUT
    [] error.message = "timeout of 15000ms exceeded" -> TOKEN_TIMEOUT
    [] OTHER -> 0

\* One exchange as the client saw it: the request, the response, whether a
\* Dramabox instance was asked for and an operation invoked, how that
\* settled, and whether the handler wrote after the response was sent.
Exchange(rq, res, invoked, out, late) ==
  [rq |-> rq, res |-> res, invoked |-> invoked, out |-> out, late |-> late]
NoExchange == Exchange(NoRq, NoRes, FALSE, NoOutcome, FALSE)

\* The server:
\*   inst      the languages dramaboxInstances has an instance of (24-31)
\*   api, dl   the stores of limiter (67-81) and downloadLimiter (343-350)
\*   arrivals  requests received
\*   req       the request whose handler awaits its operation, t0 its arrival
\*   sent      the timeout of line 86 has answered it
\*   last      the exchange completed last, none while a handler awaits
\*   pool      dramaboxInstances: the instance of each language, 0 for none;
\*             an instance is named by its rank among those constructed
\*   made      instances constructed so far
\*   dram      the instance the handler in progress got
\*   conn      a connection of a client is open
\*   phase     running, closing (server.close() called) or exited
\*   sigAt     when gracefulShutdown began, exit the exit code
IdleSrv ==
  [inst |-> {}, api |-> NoHits, dl |-> NoHits, arrivals |-> 0,
   req |-> NoRq, t0 |-> 0, sent |-> FALSE, last |-> NoExchange,
   pool |-> [l \in Langs |-> 0], made |-> 0, dram |-> 0,
   conn |-> FALSE, phase |-> "running", sigAt |-> 0, exit |-> -1]

\* getDramaboxInstance(lang) (26-31)
getDramaboxInstance_mut(s, lang) ==
  [s EXCEPT !.pool[lang] = s.made + 1, !.made = @ + 1, !.dram = s.made + 1,
            !.inst = @ \cup {lang}]
getDramaboxInstance(s, lang) ==
  IF s.pool[lang] = 0
  THEN [s EXCEPT !.pool[lang] = s.made + 1, !.made = @ + 1,
                 !.dram = s.made + 1, !.inst = @ \cup {lang}]
  ELSE [s EXCEPT !.dram = s.pool[lang]]

\* A request arrives and runs up to the first await of its handler: the
\* limiter of /api/, the limiter of the download route, the validation,
\* getDramaboxInstance(lang) and the call of the operation.
arrive(s, rq, t) ==
  LET a == IF underApi(rq.route) THEN rateLimit(s.api, rq.ip, API_MAX, t)
           ELSE [lim |-> s.api, limited |-> FALSE]
      d == IF ~a.limited /\ rq.route = "/download/:bookId"
           THEN rateLimit(s.dl, rq.ip, DOWNLOAD_MAX, t)
           ELSE [lim |-> s.dl, limited |-> FALSE]
      s1 == [s EXCEPT !.api = a.lim, !.dl = d.lim, !.arrivals = @ + 1]
      answer(res) == [s1 EXCEPT !.last = Exchange(rq, res, FALSE, NoOutcome, FALSE)]
  IN IF a.limited \/ d.limited
     THEN answer(Res(429, "RATE_LIMIT_EXCEEDED", -1, -1))
     ELSE IF rq.route = "*"
          THEN answer(Res(404, "NOT_FOUND", -1, -1))
          ELSE IF invalid(rq)
               THEN answer(Res(400, "VALIDATION_ERROR", -1, -1))
               ELSE [getDramaboxInstance(s1, rq.lang) EXCEPT
                       !.req = rq, !.t0 = t, !.sent = FALSE,
                       !.last = NoExchange]

\* The operation the handler awaits settled with out: the handler answers,
\* or hands the error to the error handler; when the response has been sent
\* already the write throws and the client keeps what it has.
settle(s, out) ==
  LET res == IF out.kind = "resolved" THEN success(s.req, out.n)
             ELSE errorHandler(out.err)
  IN [s EXCEPT !.req = NoRq, !.sent = FALSE, !.dram = 0,
               !.last = IF s.sent
                        THEN Exchange(s.req, Res(408, "REQUEST_TIMEOUT", -1, -1),
                                      TRUE, out, TRUE)
                        ELSE Exchange(s.req, res, TRUE, out, FALSE)]

\* ------------------------------------------------------------------------
\* Actions
\* ------------------------------------------------------------------------
NoArg == [attempt |-> 0, status |-> 0, tok |-> NoToken, now |-> 0]
NoRet == [n |-> 0, b |-> FALSE]

Init ==
  /\ tokenCache = NoToken
  /\ cache = NoEntry
  /\ now = 0
  /\ nextId = 1
  /\ proc = [p \in Procs |-> IdleProc]
  /\ fnName = "none"
  /\ fnArg = NoArg
  /\ fnRet = NoRet
  /\ respCache = flushAll
  /\ op = IdleOp
  /\ opCount = 0
  /\ pg = IdlePg
  /\ srv = IdleSrv

\* A caller invokes request(endpoint, payload, isWebfic).
Call(p, w) ==
  /\ proc[p].pc = "idle"
  /\ Apply(p, request([Frame(p) EXCEPT !.me.webfic = w], now))
  /\ UNCHANGED <<now, fnVars, extVars>>

BootResponse(p, o) ==
  /\ proc[p].pc = "awaitBoot"
  /\ (o.status = 200 /\ o.user) => nextId <= MaxTokens
  /\ Apply(p, bootstrapSettled(Frame(p), o, now))
  /\ UNCHANGED <<now, fnVars, extVars>>

\* delay(retryDelay) of generateNewToken elapsed (306-307).
MintDelayDone(p) ==
  /\ proc[p].pc = "mintDelay"
  /\ Apply(p, generateNewToken([Frame(p) EXCEPT !.me.mattempt = @ + 1], now))
  /\ UNCHANGED <<now, fnVars, extVars>>

DataResponse(p, o) ==
  /\ proc[p].pc = "awaitData"
  /\ Apply(p, dataSettled(Frame(p), o, now))
  /\ UNCHANGED <<now, fnVars, extVars>>

\* delay(retryDelay) of request elapsed (419-420).
BackoffDone(p) ==
  /\ proc[p].pc = "backoff"
  /\ Apply(p, request([Frame(p) EXCEPT !.me.attempt = @ + 1], now))
  /\ UNCHANGED <<now, fnVars, extVars>>

\* The promise of request settled; the caller may call again.
Return(p) ==
  /\ proc[p].pc \in {"done", "failed"}
  /\ proc' = [proc EXCEPT ![p] = IdleProc]
  /\ UNCHANGED <<tokenCache, cache, now, nextId, fnVars, extVars>>

\* Time passes: Date.now() shows a later instant.
Tick(t) ==
  /\ t > now
  /\ now' = t
  /\ UNCHANGED <<tokenCache, cache, nextId, proc, fnVars, extVars>>

\* One logical call at a time, every upstream outcome.
Next ==
  \/ \E w \in BOOLEAN : Call(1, w)
  \/ \E o \in BootOutcomes : BootResponse(1, o)
  \/ MintDelayDone(1)
  \/ \E o \in DataOutcomes : DataResponse(1, o)
  \/ BackoffDone(1)
  \/ Return(1)
  \/ \E t \in Clock : Tick(t)

Spec == Init /\ [][Next]_vars

\* Two logical calls interleaved on the signed surface, each made once, with
\* the upstream outcomes that make them meet in the token store.
ConcDataOutcomes == {Reply(200, TRUE), Reply(503, FALSE)}
ConcClock == {t \in {86100000} : t <= MaxNow}
ConcBootOutcomes == {Boot(200, TRUE, TRUE, TRUE), Boot(NoResponse, FALSE, FALSE, FALSE)}

NextConc ==
  \/ \E p \in Procs : Call(p, FALSE)
  \/ \E p \in Procs, o \in ConcBootOutcomes : BootResponse(p, o)
  \/ \E p \in Procs : MintDelayDone(p)
  \/ \E p \in Procs, o \in ConcDataOutcomes : DataResponse(p, o)
  \/ \E p \in Procs : BackoffDone(p)
  \/ \E t \in ConcClock : Tick(t)

SpecConc == Init /\ [][NextConc]_vars

\* ------------------------------------------------------------------------
\* One caller repeating one of the cached operations, with the same or with
\* other arguments
\* ------------------------------------------------------------------------
OpsDataOutcomes == {Reply(200, TRUE), Reply(200, FALSE), Reply(404, FALSE)}
OpsBootOutcomes ==
  {Boot(200, TRUE, TRUE, TRUE), Boot(NoResponse, FALSE, FALSE, FALSE)}
OpsClock ==
  {t \in {180000, 180001, 300001, 600000, 600001, 1800001, 86100000} :
     t <= MaxNow}

\* The request() of the operation in progress moved to frame r; when that
\* settled it, its locals are gone and the operation goes on in the same step.
OpStep(o0, rc, r, d) ==
  LET s == opSettled(o0, rc, r.me, d, now) IN
  /\ proc' = [proc EXCEPT ![1] = IF r.me.pc \in {"done", "failed"}
                                 THEN IdleProc ELSE r.me]
  /\ tokenCache' = r.mem
  /\ cache' = r.sh
  /\ nextId' = r.nid
  /\ op' = s.op
  /\ respCache' = s.rc

\* The caller invokes operation n with argument a, up to the first await.
OpCall(n, a) ==
  LET o0 == [IdleOp EXCEPT !.name = n, !.arg = a,
                           !.stale = (OpCached(n) /\ ~(OpValidates(n) /\ a = 0)
                                        /\ respCache[<<n, a>>].has
                                        /\ respCache[<<n, a>>].t < now)]
      rc == IF OpCached(n) THEN respAfterGet(respCache, <<n, a>>, now)
            ELSE respCache IN
  /\ op.pc = "idle"
  /\ op.name \in {"none", n}
  /\ proc[1].pc = "idle"
  /\ opCount < MaxOpCalls
  /\ IF OpValidates(n) /\ a = 0
     THEN /\ op' = [o0 EXCEPT !.pc = "thrown"]
          /\ UNCHANGED <<tokenCache, cache, nextId, proc, respCache>>
     ELSE IF cacheHit(n, a, respCache, now)
     THEN /\ op' = [o0 EXCEPT !.pc = "returned", !.hit = TRUE,
                              !.ret = respGet(respCache[<<n, a>>], now)]
          /\ UNCHANGED <<tokenCache, cache, nextId, proc, respCache>>
     ELSE IF OpSurface(n) = "stream"
     THEN /\ op' = [o0 EXCEPT !.pc = "streamGet", !.calls = 1]
          /\ respCache' = rc
          /\ UNCHANGED <<tokenCache, cache, nextId, proc>>
     ELSE OpStep([o0 EXCEPT !.pc = "request"], rc,
                 request([Frame(1) EXCEPT !.me.webfic = (OpSurface(n) = "webfic")],
                         now), 0)
  /\ UNCHANGED <<now, fnVars, srv, pg, opCount>>

OpBootResponse(o) ==
  /\ op.pc = "request"
  /\ proc[1].pc = "awaitBoot"
  /\ (o.status = 200 /\ o.user) => nextId <= MaxTokens
  /\ OpStep(op, respCache, bootstrapSettled(Frame(1), o, now), 0)
  /\ UNCHANGED <<now, fnVars, srv, pg, opCount>>

OpMintDelayDone ==
  /\ op.pc = "request"
  /\ proc[1].pc = "mintDelay"
  /\ OpStep(op, respCache,
            generateNewToken([Frame(1) EXCEPT !.me.mattempt = @ + 1], now), 0)
  /\ UNCHANGED <<now, fnVars, srv, pg, opCount>>

\* The data call answered o with body d.
OpDataResponse(o, d) ==
  /\ op.pc = "request"
  /\ proc[1].pc = "awaitData"
  /\ IF o.status = 200 THEN (~o.success => d # 0) ELSE d = 0
  /\ OpStep(op, respCache, dataSettled(Frame(1), o, now), d)
  /\ UNCHANGED <<now, fnVars, srv, pg, opCount>>

OpBackoffDone ==
  /\ op.pc = "request"
  /\ proc[1].pc = "backoff"
  /\ OpStep(op, respCache,
            request([Frame(1) EXCEPT !.me.attempt = @ + 1], now), 0)
  /\ UNCHANGED <<now, fnVars, srv, pg, opCount>>

\* axios.get of getStreamUrl answered o with body d.
StreamResponse(o, d) ==
  LET s == streamSettled(op, respCache, o, d, now) IN
  /\ op.pc = "streamGet"
  /\ IF o.status = 200 /\ o.chapter THEN d # 0 ELSE d = 0
  /\ op' = s.op
  /\ respCache' = s.rc
  /\ UNCHANGED <<sysVars, fnVars, srv, pg, opCount>>

\* delay(retryDelay) of getStreamUrl elapsed (519-520).
StreamDelayDone ==
  /\ op.pc = "streamDelay"
  /\ op' = [op EXCEPT !.pc = "streamGet", !.attempt = @ + 1, !.calls = @ + 1]
  /\ UNCHANGED <<sysVars, fnVars, srv, pg, respCache, opCount>>

\* The operation's promise settled; the caller may call again.
OpReturn ==
  /\ op.pc \in {"returned", "thrown"}
  /\ op' = [IdleOp EXCEPT !.name = op.name]
  /\ opCount' = opCount + 1
  /\ UNCHANGED <<sysVars, fnVars, srv, pg, respCache>>

\* clearCache() (920-924).
clearCache ==
  /\ op.pc = "idle"
  /\ respCache' = flushAll
  /\ cache' = NoEntry
  /\ tokenCache' = NoToken
  /\ UNCHANGED <<now, nextId, proc, fnVars, srv, pg, op, opCount>>

\* Time passes between two operations.
OpTick(t) ==
  /\ op.pc = "idle"
  /\ t > now
  /\ now' = t
  /\ UNCHANGED <<tokenCache, cache, nextId, proc, fnVars, extVars>>

NextOps ==
  \/ \E n \in OpNames : \E a \in OpArgs(n) : OpCall(n, a)
  \/ \E o \in OpsBootOutcomes : OpBootResponse(o)
  \/ OpMintDelayDone
  \/ \E o \in OpsDataOutcomes, d \in Bodies : OpDataResponse(o, d)
  \/ OpBackoffDone
  \/ \E o \in StreamOutcomes, d \in Bodies : StreamResponse(o, d)
  \/ StreamDelayDone
  \/ OpReturn
  \/ clearCache
  \/ \E t \in OpsClock : OpTick(t)

SpecOps == Init /\ [][NextOps]_vars

\* ------------------------------------------------------------------------
\* One caller running batchDownload
\* ------------------------------------------------------------------------
PgDataOutcomes == {Reply(200, TRUE), Reply(200, FALSE), Reply(404, FALSE)}
PgBootOutcomes ==
  {Boot(200, TRUE, TRUE, TRUE), Boot(NoResponse, FALSE, FALSE, FALSE)}

PgApply(x) ==
  /\ pg' = x.pg
  /\ proc' = [proc EXCEPT ![1] = x.r.me]
  /\ tokenCache' = x.r.mem
  /\ cache' = x.r.sh
  /\ nextId' = x.r.nid

\* The caller invokes batchDownload(bookId), up to the first await.
PgCall ==
  /\ pg.pc = "idle"
  /\ proc[1].pc = "idle"
  /\ \E x \in {fetchBatch([IdlePg EXCEPT !.currentIdx = 1], Frame(1), "outer", now)} : PgApply(x)
  /\ UNCHANGED <<now, fnVars, srv, respCache, op, opCount>>

PgBootResponse(o) ==
  /\ pg.pc \in {"request", "mint"}
  /\ proc[1].pc = "awaitBoot"
  /\ (o.status = 200 /\ o.user) => nextId <= MaxTokens
  /\ \E x \in {pagerStep(pg, bootstrapSettled(Frame(1), o, now), NoData, now)} : PgApply(x)
  /\ UNCHANGED <<now, fnVars, srv, respCache, op, opCount>>

PgMintDelayDone ==
  /\ pg.pc \in {"request", "mint"}
  /\ proc[1].pc = "mintDelay"
  /\ \E x \in {pagerStep(pg, generateNewToken(
                              [Frame(1) EXCEPT !.me.mattempt = @ + 1], now),
                       NoData, now)} : PgApply(x)
  /\ UNCHANGED <<now, fnVars, srv, respCache, op, opCount>>

\* The data call answered o with body w.
PgDataResponse(o, w) ==
  /\ pg.pc = "request"
  /\ proc[1].pc = "awaitData"
  /\ IF o.status = 200 THEN (~o.success => w = Window(0, 0, 0)) ELSE w = NoData
  /\ (pg.mode # "outer" \/ ~pg.first) => (w.total = 0 /\ w.pay = 0)
  /\ \E x \in {pagerStep(pg, dataSettled(Frame(1), o, now), w, now)} : PgApply(x)
  /\ UNCHANGED <<now, fnVars, srv, respCache, op, opCount>>

PgBackoffDone ==
  /\ pg.pc = "request"
  /\ proc[1].pc = "backoff"
  /\ \E x \in {pagerStep(pg, request([Frame(1) EXCEPT !.me.attempt = @ + 1], now),
                       NoData, now)} : PgApply(x)
  /\ UNCHANGED <<now, fnVars, srv, respCache, op, opCount>>

PgDelayDone ==
  /\ pg.pc \in {"d1500", "d2000", "d4000", "d800"}
  /\ \E x \in {delayDone(pg, Frame(1), now)} : PgApply(x)
  /\ UNCHANGED <<now, fnVars, srv, respCache, op, opCount>>

\* The promise of batchDownload settled; the caller may call again.
PgReturn ==
  /\ pg.pc \in {"returned", "rejected"}
  /\ pg' = IdlePg
  /\ UNCHANGED <<sysVars, fnVars, srv, respCache, op, opCount>>

NextPager ==
  \/ PgCall
  \/ \E o \in PgBootOutcomes : PgBootResponse(o)
  \/ PgMintDelayDone
  \/ \E o \in PgDataOutcomes, w \in PgBodies : PgDataResponse(o, w)
  \/ PgBackoffDone
  \/ PgDelayDone
  \/ PgReturn

SpecPager == Init /\ [][NextPager]_vars

\* Every call and every timer that batchDownload waits for settles.
SpecPagerFair == SpecPager /\ WF_vars(NextPager)

\* ------------------------------------------------------------------------
\* The helpers applied to enumerated arguments
\* ------------------------------------------------------------------------
FnStatuses == {0, 200, 400, 401, 403, 404, 408, 409, 429, 500, 501, 502, 503, 504}
FnNows == {0, 1, 299999, 300000, 3600000, 86099999, 86100000, 86100001,
           86399999, 86400000}
FnExpiries == {1, TOKEN_MARGIN_MS, TOKEN_MARGIN_MS + 1, 2 * TOKEN_MARGIN_MS,
               TOKEN_LIFETIME_MS - 1, TOKEN_LIFETIME_MS, TOKEN_LIFETIME_MS + 1,
               TOKEN_LIFETIME_MS + TOKEN_MARGIN_MS}
FnTokens ==
  {NoToken} \cup {[id |-> 1, expiry |-> e, token |-> TRUE, uid |-> TRUE] : e \in FnExpiries}

ApplyGetRetryDelay(n) ==
  /\ fnName' = "getRetryDelay"
  /\ fnArg' = [NoArg EXCEPT !.attempt = n]
  /\ fnRet' = [NoRet EXCEPT !.n = getRetryDelay(n)]
  /\ UNCHANGED <<sysVars, extVars>>

ApplyIsRetryableError(st) ==
  /\ fnName' = "isRetryableError"
  /\ fnArg' = [NoArg EXCEPT !.status = st]
  /\ fnRet' = [NoRet EXCEPT !.b = isRetryableError(st)]
  /\ UNCHANGED <<sysVars, extVars>>

ApplyIsTokenValid(tok, t) ==
  /\ fnName' = "isTokenValid"
  /\ fnArg' = [NoArg EXCEPT !.tok = tok, !.now = t]
  /\ fnRet' = [NoRet EXCEPT !.b = isTokenValid(tok, t)]
  /\ UNCHANGED <<sysVars, extVars>>

FnNext ==
  \/ \E n \in 0..MaxAttemptArg : ApplyGetRetryDelay(n)
  \/ \E st \in FnStatuses : ApplyIsRetryableError(st)
  \/ \E tok \in FnTokens, t \in FnNows : ApplyIsTokenValid(tok, t)

FnSpec == Init /\ [][FnNext]_vars

\* ------------------------------------------------------------------------
\* The finalization of batchDownload applied to enumerated records
\* ------------------------------------------------------------------------
MaxRecords == 3
MaxPaths == 2

SeqsUpTo(S, n) == UNION {[1..k -> S] : k \in 0..n}

\* Accumulated records: two chapter ids, three chapter indexes, and a name
\* that tells apart the copies of a chapter.
FnRecords ==
  {[chapterId |-> c, chapterIndex |-> x, chapterName |-> m, cdnList |-> <<>>] :
     c \in {1, 2}, x \in {0, 1, 2}, m \in {"a", "b"}}
FnResults == SeqsUpTo(FnRecords, MaxRecords)

\* Entries of a videoPathList; the path names the cdn and the place of the
\* entry, or is empty.
PathNames == <<<<"a1", "a2", "a3", "a4">>, <<"b1", "b2", "b3", "b4">>>>
FnEntries ==
  {[isDefault |-> d, quality |-> q, named |-> e] :
     d \in {0, 1}, q \in {480, 720, 1080}, e \in BOOLEAN}
videoPathListOf(c, es) ==
  [i \in 1..Len(es) |->
     [isDefault |-> es[i].isDefault, quality |-> es[i].quality,
      videoPath |-> IF es[i].named THEN PathNames[c][i] ELSE ""]]
FnCdns(c, n) ==
  {[isDefault |-> d, videoPathList |-> videoPathListOf(c, es)] :
     d \in {0, 1}, es \in SeqsUpTo(FnEntries, n)}
\* No cdn, one cdn with up to MaxPaths entries, or two with up to one each.
FnCdnLists ==
  {<<>>} \cup {<<c>> : c \in FnCdns(1, MaxPaths)}
         \cup {<<c1, c2>> : c1 \in FnCdns(1, 1), c2 \in FnCdns(2, 1)}
FnChapters ==
  {[chapterId |-> 1, chapterIndex |-> 1, chapterName |-> "a", cdnList |-> l] :
     l \in FnCdnLists}

NoChapter == [chapterId |-> 0, chapterIndex |-> 0, chapterName |-> "",
              cdnList |-> <<>>]
FinalInputs ==
  {[kind |-> "result", result |-> l, ch |-> NoChapter] : l \in FnResults}
    \cup {[kind |-> "chapter", result |-> <<>>, ch |-> c] : c \in FnChapters}

FinalInit ==
  /\ tokenCache = NoToken
  /\ cache = NoEntry
  /\ now = 0
  /\ nextId = 1
  /\ proc = [p \in Procs |-> IdleProc]
  /\ fnName = "none"
  /\ fnArg \in FinalInputs
  /\ fnRet = <<>>
  /\ respCache = flushAll
  /\ op = IdleOp
  /\ opCount = 0
  /\ pg = IdlePg
  /\ srv = IdleSrv

ApplyFinalResult ==
  /\ fnName = "none"
  /\ fnArg.kind = "result"
  /\ fnName' = "finalResult"
  /\ fnRet' = finalResult(fnArg.result)
  /\ UNCHANGED <<sysVars, extVars, fnArg>>

ApplyVideoPath ==
  /\ fnName = "none"
  /\ fnArg.kind = "chapter"
  /\ fnName' = "videoPath"
  /\ fnRet' = mapped(<<fnArg.ch>>)
  /\ UNCHANGED <<sysVars, extVars, fnArg>>

FinalNext ==
  \/ ApplyFinalResult
  \/ ApplyVideoPath

FinalSpec == FinalInit /\ [][FinalNext]_vars

\* ------------------------------------------------------------------------
\* The HTTP server: requests arrive one at a time, the handler of one awaits
\* its operation while the clock runs.
\* ------------------------------------------------------------------------
MaxArrivals == 1
SrvClock == {15000, 30000, 45000, 60000}
Params == Strings \cup {Undef}

\* The requests the router can hand to a handler: a path parameter is never
\* empty, and only /api/search and /api/stream read the query.
Requests ==
  UNION {
    {Rq("/api/stream", 1, lang, p1, p2) : p1 \in Params, p2 \in Params}
    \cup {Rq("/api/search", 1, lang, p1, Undef) : p1 \in Params}
    \cup {Rq(route, 1, lang, p1, Undef) :
            route \in PathParamRoutes, p1 \in Strings \ {<<>>}}
    \cup {Rq(route, 1, lang, Undef, Undef) :
            route \in Routes \ (PathParamRoutes
                                  \cup {"/api/search", "/api/stream"})}
    : lang \in Langs}

SrvUnchanged == UNCHANGED <<sysVars, fnVars, respCache, op, opCount, pg>>

SrvArrive(rq) ==
  /\ srv.req = NoRq
  /\ srv.arrivals < MaxArrivals
  /\ srv' = arrive(srv, rq, now)
  /\ SrvUnchanged

\* The callback of req.setTimeout fires (86-95).
SrvTimeout ==
  /\ srv.req # NoRq
  /\ ~srv.sent
  /\ now >= srv.t0 + SOCKET_TIMEOUT
  /\ srv' = [srv EXCEPT !.sent = TRUE]
  /\ SrvUnchanged

\* The awaited operation settles; the timer of the socket, set earlier, has
\* fired by then when it was due.
SrvSettle(out) ==
  /\ srv.req # NoRq
  /\ out \in Outcomes(srv.req)
  /\ now < srv.t0 + SOCKET_TIMEOUT \/ srv.sent
  /\ out.kind = "rejected" => now >= srv.t0 + minDuration(out.cause)
  /\ srv' = settle(srv, out)
  /\ SrvUnchanged

SrvTick(t) ==
  /\ srv.req # NoRq
  /\ t > now
  /\ now' = t
  /\ UNCHANGED <<tokenCache, cache, nextId, proc, fnVars, extVars>>

AllOutcomes == UNION {Outcomes(rq) : rq \in Requests}

NextServer ==
  \/ \E rq \in Requests : SrvArrive(rq)
  \/ SrvTimeout
  \/ \E out \in AllOutcomes : SrvSettle(out)
  \/ \E t \in SrvClock : SrvTick(t)

SpecServer == Init /\ [][NextServer]_vars

\* The limiters: well-formed requests of two clients to the download route
\* and to one route under /api/, over more than one window.
MaxLimArrivals == 8
LimClock == {30000, 60000, 90000}
LimRequests ==
  {Rq(route, ip, "pt", p1, Undef) :
     route \in {"/download/:bookId"}, ip \in Ips, p1 \in {<<"1">>}}
  \cup {Rq("/api/home", ip, "pt", Undef, Undef) : ip \in Ips}
LimOutcomes == {Resolved(-1), Resolved(1)}

LimArrive(rq) ==
  /\ srv.req = NoRq
  /\ srv.arrivals < MaxLimArrivals
  /\ srv' = arrive(srv, rq, now)
  /\ SrvUnchanged

LimSettle(out) ==
  /\ out \in LimOutcomes
  /\ SrvSettle(out)

LimTick(t) ==
  /\ srv.req = NoRq
  /\ t > now
  /\ now' = t
  /\ UNCHANGED <<tokenCache, cache, nextId, proc, fnVars, extVars>>

NextLimiter ==
  \/ \E rq \in LimRequests : LimArrive(rq)
  \/ \E out \in LimOutcomes : LimSettle(out)
  \/ \E t \in LimClock : LimTick(t)

SpecLimiter == Init /\ [][NextLimiter]_vars

\* ------------------------------------------------------------------------
\* The life of the process: requests of two languages on kept-alive
\* connections, then SIGTERM or SIGINT (566-588).
\* ------------------------------------------------------------------------
MaxLifeArrivals == 3
FORCE_EXIT_MS == 10000
LifeClock == {10000, 20000, 30000, 40000}
LifeRequests ==
  {Rq("/api/home", 1, lang, Undef, Undef) : lang \in Langs}
  \cup {Rq("/download/:bookId", 1, "pt", <<"1">>, Undef)}

\* server.close(callback) calls back once the server has no connection
\* left: one that carries a request stays until its response has ended.
serverClosed_mut(s) == TRUE
serverClosed(s) == ~s.conn

\* The callback of server.close (569-578).
closeCallback(s) ==
  [s EXCEPT !.pool = [l \in Langs |-> 0], !.inst = {},
            !.phase = "exited", !.exit = 0]

\* A request arrives, on a new connection or on one that is open; a server
\* that is closing takes no new connection.
LifeArrive(rq) ==
  /\ srv.phase = "running" \/ (srv.phase = "closing" /\ srv.conn)
  /\ srv.req = NoRq
  /\ srv.arrivals < MaxLifeArrivals
  /\ srv' = [arrive(srv, rq, now) EXCEPT !.conn = TRUE]
  /\ SrvUnchanged

LifeSettle(out) ==
  /\ srv.phase # "exited"
  /\ out \in LimOutcomes
  /\ SrvSettle(out)

LifeTimeout ==
  /\ srv.phase # "exited"
  /\ SrvTimeout

\* A connection that carries no unanswered request ends.
ConnClose ==
  /\ srv.phase # "exited"
  /\ srv.conn
  /\ srv.req = NoRq \/ srv.sent
  /\ srv' = [srv EXCEPT !.conn = FALSE]
  /\ SrvUnchanged

\* SIGTERM or SIGINT: gracefulShutdown(signal) (566, 587-588).
Signal ==
  /\ srv.phase = "running"
  /\ \E t \in LifeClock : t >= now + FORCE_EXIT_MS
  /\ srv' = [srv EXCEPT !.phase = "closing", !.sigAt = now]
  /\ SrvUnchanged

CloseCallback ==
  /\ srv.phase = "closing"
  /\ serverClosed(srv)
  /\ srv' = closeCallback(srv)
  /\ SrvUnchanged

\* The timer of 581-584 fires: process.exit(1).
ForceExit ==
  /\ srv.phase = "closing"
  /\ now >= srv.sigAt + FORCE_EXIT_MS
  /\ srv' = [srv EXCEPT !.phase = "exited", !.exit = 1]
  /\ SrvUnchanged

\* Time passes, not beyond the instant a timer is due.
LifeTick(t) ==
  /\ srv.phase # "exited"
  /\ srv.phase = "closing" => now < srv.sigAt + FORCE_EXIT_MS
  /\ t > now
  /\ \A u \in LifeClock : u > now => t <= u
  /\ now' = t
  /\ UNCHANGED <<tokenCache, cache, nextId, proc, fnVars, extVars>>

NextLife ==
  \/ \E rq \in LifeRequests : LifeArrive(rq)
  \/ \E out \in LimOutcomes : LifeSettle(out)
  \/ LifeTimeout
  \/ ConnClose
  \/ Signal
  \/ CloseCallback
  \/ ForceExit
  \/ \E t \in LifeClock : LifeTick(t)

SpecLife == Init /\ [][NextLife]_vars
\* The event loop runs what is due: no callback waits forever.
SpecLifeFair == SpecLife /\ WF_vars(NextLife)

\* ------------------------------------------------------------------------
\* Properties
\* ------------------------------------------------------------------------
SoftFailure == Reply(200, FALSE)
NonRetryableStatuses == {400, 401, 403, 404}

\* C1: a logical call of request issues at most MAX_RETRIES + 1 = 4 upstream
\* data calls, whatever the upstream answers.
C1_AtMostFourCalls ==
  \A p \in Procs : proc[p].dataCalls <= MAX_RETRIES + 1

\* C2: on the signed surface, when the call re-issued after the first
\* success:false (attempt 1, called from the attempt-0 frame) is answered
\* success:false too, the logical call has failed at once: no backoff and
\* no upstream call beyond the second.
C2_SecondSoftFailureTerminal ==
  \A p \in Procs :
    (~proc[p].webfic /\ proc[p].nested /\ proc[p].attempt = 1
       /\ proc[p].lastResp = SoftFailure)
      => (proc[p].pc = "failed" /\ proc[p].dataCalls = 2)

\* C3: isTokenValid is true exactly when a token exists and its expiry is
\* strictly greater than now + 5 minutes.
C3_IsTokenValid ==
  fnName = "isTokenValid" =>
    /\ fnRet.b <=> (fnArg.tok.id # 0 /\ fnArg.tok.expiry > fnArg.now + 300000)
    /\ fnArg.tok.expiry = fnArg.now + 300000 => ~fnRet.b
    /\ fnArg.tok.id = 0 => ~fnRet.b

C3_Witness ==
  /\ fnName = "isTokenValid"
  /\ fnArg.tok.id # 0
  /\ fnArg.tok.expiry = fnArg.now + 300000
  /\ ~fnRet.b

\* C4: getToken resolves in three ordered steps.  (1) a valid in-memory
\* token is returned, no shared-cache write and no bootstrap call; (2) else
\* a live shared-cache token whose expiry is in the future is adopted as the
\* in-memory token and returned, no bootstrap call (also when the shared
\* cache is consulted again after a failed bootstrap); (3) else a bootstrap
\* call is issued and the token it yields is written to the in-memory slot
\* and to the shared cache with TTL 3600 s before it is returned.
SharedLive == cache.val.id # 0 /\ cache.t >= now /\ cache.val.expiry > now
Adopted(p) ==
  /\ tokenCache' = cache.val
  /\ cache' = cache
  /\ nextId' = nextId
  /\ proc'[p].pc = "awaitData"
  /\ proc'[p].sentTok = cache.val
  /\ proc'[p].tokSrc = "shared"
BootstrapIssued(p, calls) ==
  /\ UNCHANGED <<tokenCache, cache, nextId>>
  /\ proc'[p].pc = "awaitBoot"
  /\ proc'[p].bootCalls = calls
C4_GetTokenOrder ==
  [][\A p \in Procs :
       /\ (proc[p].pc \in {"idle", "backoff"} /\ proc'[p].pc # proc[p].pc
             /\ ~proc'[p].webfic)
            => IF tokenCache.id # 0 /\ tokenCache.expiry > now + 300000
               THEN /\ UNCHANGED <<tokenCache, cache, nextId>>
                    /\ proc'[p].pc = "awaitData"
                    /\ proc'[p].sentTok = tokenCache
                    /\ proc'[p].tokSrc = "memory"
               ELSE IF SharedLive THEN Adopted(p) ELSE BootstrapIssued(p, 1)
       /\ (proc[p].pc = "mintDelay" /\ proc'[p].pc # "mintDelay")
            => IF SharedLive
               THEN Adopted(p)
               ELSE BootstrapIssued(p, proc[p].bootCalls + 1)
       /\ (proc[p].pc = "awaitBoot" /\ proc'[p].pc # "awaitBoot"
             /\ nextId' # nextId)
            => /\ tokenCache'.id = nextId
               /\ cache' = [val |-> tokenCache', t |-> now + 3600 * 1000]
               /\ proc'[p].pc = "awaitData"
               /\ proc'[p].sentTok = tokenCache'
               /\ proc'[p].tokSrc = "minted"
  ]_vars

C4_Witness ==
  \E p \in Procs :
    /\ proc[p].pc = "awaitData"
    /\ proc[p].tokSrc = "shared"
    /\ proc[p].sentTok = tokenCache
    /\ proc[p].sentTok = cache.val
    /\ proc[p].sentTok.id # 0

\* C5: one generateNewToken invocation issues at most 4 bootstrap calls and
\* sleeps 1000, 2000, 4000 ms before the 2nd, 3rd, 4th; when the 4th call
\* yields a token that token is stored and used and no error is raised; when
\* the invocation throws, it has written neither token tier.
C5_MintRound ==
  /\ [](\A p \in Procs :
          /\ proc[p].bootCalls <= 4
          /\ proc[p].pc = "mintDelay" =>
               \/ proc[p].bootCalls = 1 /\ proc[p].wait = 1000
               \/ proc[p].bootCalls = 2 /\ proc[p].wait = 2000
               \/ proc[p].bootCalls = 3 /\ proc[p].wait = 4000)
  /\ [][\A p \in Procs :
          (proc[p].pc = "awaitBoot" /\ proc'[p].pc # "awaitBoot") =>
            /\ (proc[p].bootCalls = 4 /\ nextId' # nextId)
                 => /\ proc'[p].pc = "awaitData"
                    /\ proc'[p].sentTok.id = nextId
                    /\ tokenCache'.id = nextId
                    /\ cache'.val.id = nextId
            /\ (proc[p].bootCalls = 4 /\ nextId' = nextId)
                 => proc'[p].pc \in {"backoff", "failed"}
            /\ proc'[p].pc \in {"backoff", "failed"}
                 => UNCHANGED <<tokenCache, cache>>
    ]_vars

C5_Witness ==
  \E p \in Procs :
    /\ proc[p].pc = "awaitData"
    /\ proc[p].bootCalls = 4
    /\ proc[p].tokSrc = "minted"
    /\ proc[p].sentTok.id # 0
    /\ proc[p].sentTok = tokenCache

\* C6: getRetryDelay(n) = min(1000 * 2^n, 10000): 1000, 2000, 4000, 8000 for
\* n = 0..3, 10000 for every n >= 4, and non-decreasing in n.
C6_RetryDelay ==
  fnName = "getRetryDelay" =>
    /\ fnRet.n = (CASE fnArg.attempt = 0 -> 1000
                    [] fnArg.attempt = 1 -> 2000
                    [] fnArg.attempt = 2 -> 4000
                    [] fnArg.attempt = 3 -> 8000
                    [] OTHER -> 10000)
    /\ \A m \in 0..fnArg.attempt : getRetryDelay(m) <= fnRet.n

C6_Witness ==
  fnName = "getRetryDelay" /\ fnArg.attempt = 4 /\ fnRet.n = 10000

\* C7: isRetryableError is true exactly for an error without a response and
\* for the statuses 408, 429, 500, 502, 503, 504.
C7_IsRetryable ==
  fnName = "isRetryableError" =>
    /\ fnRet.b <=> (fnArg.status = 0 \/ fnArg.status \in {408, 429, 500, 502, 503, 504})
    /\ fnArg.status \in {400, 401, 403, 404} => ~fnRet.b

C7_Witness ==
  fnName = "isRetryableError" /\ fnArg.status = 0 /\ fnRet.b

\* C8: once a data call of a logical call has been answered with a
\* non-retryable status (400, 401, 403, 404), at any attempt, the logical
\* call has failed and issues no further upstream call.
C8_NonRetryableTerminal ==
  \A p \in Procs :
    proc[p].lastResp.status \in NonRetryableStatuses => proc[p].pc = "failed"

\* C9: when an attempt < MAX_RETRIES fails with 502 or 503, the handler
\* leaves both token tiers empty when the backoff starts, and the retry on
\* the signed surface is sent with a token other than the one of the failed
\* attempt.
C9_InvalidateBeforeRetry ==
  [][\A p \in Procs :
       /\ (proc[p].pc = "awaitData" /\ proc[p].attempt < MAX_RETRIES
             /\ proc'[p].pc = "backoff" /\ proc'[p].lastResp.status \in {502, 503})
            => (tokenCache' = NoToken /\ cache' = NoEntry)
       /\ (proc[p].pc \in {"backoff", "awaitBoot", "mintDelay"}
             /\ proc[p].err \in {502, 503} /\ ~proc[p].webfic
             /\ proc'[p].pc = "awaitData")
            => (proc'[p].sentTok.id # 0 /\ proc'[p].sentTok.id # proc[p].sentTok.id)
  ]_vars

C9_Witness ==
  \E p \in Procs :
    /\ proc[p].pc = "awaitData"
    /\ proc[p].err \in {502, 503}
    /\ proc[p].attempt >= 1
    /\ ~proc[p].webfic
    /\ proc[p].sentTok.id > 1

\* C10: no token record whose token value or user id is absent is ever
\* stored in a tier or returned by generateNewToken.
C10_NoIncompleteToken ==
  /\ tokenCache.id # 0 => (tokenCache.token /\ tokenCache.uid)
  /\ cache.val.id # 0 => (cache.val.token /\ cache.val.uid)
  /\ \A p \in Procs :
       proc[p].sentTok.id # 0 => (proc[p].sentTok.token /\ proc[p].sentTok.uid)

\* C11: a failed minting round is terminal for the request it serves: when
\* generateNewToken throws into a request frame, that logical call fails;
\* it does not back off and ask for a token again.
C11_MintFailureTerminal ==
  [][\A p \in Procs :
       (proc[p].pc = "awaitBoot" /\ proc'[p].pc \in {"backoff", "failed"})
         => proc'[p].pc = "failed"
  ]_vars

\* The operations C12 lists, and a live entry under their key.
ListedOps ==
  {"getVip", "getDramaDetail", "getDramaDetailV2", "getChapters",
   "getStreamUrl", "getDramaList", "getCategories", "getBookFromCategories",
   "getRecommendedBooks", "searchDrama"}
LiveEntry(k) == respCache[k].has /\ now <= respCache[k].t

\* C12: a call of a cached operation whose key holds an entry written by an
\* earlier successful call, with the TTL not elapsed and no clearCache in
\* between, returns the stored value and touches neither the upstream nor
\* the token store.
C12_CacheHitReturnsStored ==
  [][\A k \in Keys :
       (/\ k[1] \in ListedOps
        /\ op.pc = "idle" /\ op'.pc # "idle"
        /\ op'.name = k[1] /\ op'.arg = k[2]
        /\ LiveEntry(k))
       => (/\ op'.pc = "returned"
           /\ op'.ret = respCache[k].val
           /\ op'.calls = 0
           /\ proc' = proc /\ tokenCache' = tokenCache /\ cache' = cache
           /\ nextId' = nextId)
  ]_vars

UpstreamFailed(o) ==
  o.end = "failed" \/ (o.last.status = 200 /\ ~o.last.success)

\* C14: when the upstream call of a single-resource operation ends in a
\* failure (a rejected request, or an answer the upstream marks as
\* rejected), the operation throws and the response cache is left as it was.
C14_FailureThrows ==
  [][(op.pc \in {"request", "streamGet"} /\ op'.pc \in {"returned", "thrown"}
        /\ UpstreamFailed(op'))
       => (op'.pc = "thrown" /\ respCache' = respCache)
  ]_vars

\* C15: the promise of batchDownload is never rejected; when an exception
\* left the window loop (a token mint that failed during a recovery) the
\* operation resolves with the empty list, whatever it had accumulated.
C15_NeverRejects ==
  /\ pg.pc # "rejected"
  /\ (pg.pc = "returned" /\ pg.threw) => pg.ret = <<>>
  /\ (pg.pc = "returned" /\ ~pg.threw) => pg.ret = finalResult(pg.result)

\* A recovery's mint failed in the while loop, after the first window had
\* delivered records.
C15_Witness ==
  /\ pg.pc = "returned" /\ pg.threw
  /\ pg.result # <<>> /\ pg.fetches > 0 /\ pg.recoveries = 1

\* ceil(a / b) for b > 0.
CeilDiv(a, b) == -((-a) \div b)
Max(a, b) == IF a > b THEN a ELSE b

\* C16 as stated: once the first window has reported chapterCount, the
\* operation returns, its loop has ended with currentIdx > totalChapters, and
\* the loop made at most 3 * ceil((totalChapters - 5) / 5) window fetches.
C16_EndsPastTotal ==
  /\ [](~pg.first =>
          pg.fetches <= 3 * CeilDiv(pg.totalChapters - 5, 5))
  /\ []((pg.pc = "returned" /\ ~pg.first) =>
          pg.currentIdx > pg.totalChapters)
  /\ (pg.pc # "idle" ~> pg.pc = "returned")

\* C16, amended: the operation always returns; the loop makes at most
\* 3 * max(0, ceil((totalChapters - 5) / 5)) window fetches; and it ends with
\* currentIdx > totalChapters unless a failed token mint abandoned it.
C16_Terminates ==
  /\ [](~pg.first =>
          pg.fetches <= 3 * Max(0, CeilDiv(pg.totalChapters - 5, 5)))
  /\ []((pg.pc = "returned" /\ ~pg.first) =>
          (pg.currentIdx > pg.totalChapters \/ pg.threw))
  /\ (pg.pc # "idle" ~> pg.pc = "returned")

\* The loop used all its fetches: every window stayed empty three times.
C16_Witness ==
  /\ pg.pc = "returned" /\ ~pg.threw /\ ~pg.first
  /\ pg.totalChapters = MaxChapters
  /\ pg.fetches = 3 * CeilDiv(pg.totalChapters - 5, 5)
  /\ pg.currentIdx > pg.totalChapters

\* C17: in the result every chapterId of the accumulated records occurs
\* exactly once, and its record is the one accumulated last under that id.
C17_DedupLastWins ==
  fnName = "finalResult" =>
    LET acc == fnArg.result
        out == fnRet IN
    /\ \A i, j \in 1..Len(out) : out[i].chapterId = out[j].chapterId => i = j
    /\ {out[i].chapterId : i \in 1..Len(out)}
         = {acc[i].chapterId : i \in 1..Len(acc)}
    /\ \A i \in 1..Len(out) :
         \E k \in 1..Len(acc) :
           /\ acc[k].chapterId = out[i].chapterId
           /\ \A m \in (k + 1)..Len(acc) : acc[m].chapterId # out[i].chapterId
           /\ out[i].chapterName = acc[k].chapterName
           /\ out[i].chapterIndex = acc[k].chapterIndex

\* A chapter accumulated twice with different contents, another one in
\* between; the later copy is the one in the result.
C17_Witness ==
  /\ fnName = "finalResult"
  /\ Len(fnArg.result) = 3 /\ Len(fnRet) = 2
  /\ fnArg.result[1].chapterId = fnArg.result[3].chapterId
  /\ fnArg.result[1].chapterName = "a" /\ fnArg.result[3].chapterName = "b"
  /\ \E i \in 1..2 : fnRet[i].chapterId = fnArg.result[1].chapterId
                       /\ fnRet[i].chapterName = "b"

\* C18: the result is non-decreasing in chapterIndex along the list, in
\* whatever order the records were accumulated.
C18_SortedByIndex ==
  fnName = "finalResult" =>
    \A i, j \in 1..Len(fnRet) :
      i < j => fnRet[i].chapterIndex <= fnRet[j].chapterIndex

\* Records accumulated in descending order come out ascending.
C18_Witness ==
  /\ fnName = "finalResult"
  /\ Len(fnArg.result) = 3 /\ Len(fnRet) = 2
  /\ fnArg.result[1].chapterIndex = 2 /\ fnArg.result[2].chapterIndex = 1
  /\ fnRet[1].chapterIndex = 1 /\ fnRet[2].chapterIndex = 2

\* The entries the path is chosen from: the videoPathList of the cdn flagged
\* default, else of the first cdn.
C19_Entries(ch) ==
  IF \E c \in 1..Len(ch.cdnList) : ch.cdnList[c].isDefault = 1
  THEN ch.cdnList[CHOOSE c \in 1..Len(ch.cdnList) :
                    /\ ch.cdnList[c].isDefault = 1
                    /\ \A b \in 1..(c - 1) : ch.cdnList[b].isDefault # 1
                 ].videoPathList
  ELSE IF ch.cdnList # <<>> THEN ch.cdnList[1].videoPathList ELSE <<>>

\* C19: the path of a record is that of the first entry flagged default,
\* else of the first 1080 entry, else of the first 720 entry, else of the
\* first entry; the sentinel "N/A" when there is no entry or the chosen entry
\* has no path.
C19_PathPreference ==
  fnName = "videoPath" =>
    LET l == C19_Entries(fnArg.ch)
        got == fnRet[1].videoPath
        pathOf(k) == IF l[k].videoPath = "" THEN "N/A" ELSE l[k].videoPath
        firstWith(P(_), k) == P(l[k]) /\ \A j \in 1..(k - 1) : ~P(l[j])
        D(e) == e.isDefault = 1
        Q1080(e) == e.quality = 1080
        Q720(e) == e.quality = 720
        some(P(_)) == \E k \in 1..Len(l) : P(l[k]) IN
    /\ Len(fnRet) = 1
    /\ l = <<>> => got = "N/A"
    /\ \A k \in 1..Len(l) :
         /\ firstWith(D, k) => got = pathOf(k)
         /\ (~some(D) /\ firstWith(Q1080, k)) => got = pathOf(k)
         /\ (~some(D) /\ ~some(Q1080) /\ firstWith(Q720, k)) => got = pathOf(k)
         /\ (~some(D) /\ ~some(Q1080) /\ ~some(Q720) /\ k = 1) => got = pathOf(k)

\* No entry is flagged, the 720 entry comes first, the 1080 entry is chosen.
C19_Witness ==
  /\ fnName = "videoPath"
  /\ Len(fnArg.ch.cdnList) = 1
  /\ Len(fnArg.ch.cdnList[1].videoPathList) = 2
  /\ fnArg.ch.cdnList[1].videoPathList[1].quality = 720
  /\ fnArg.ch.cdnList[1].videoPathList[1].isDefault = 0
  /\ fnArg.ch.cdnList[1].videoPathList[2].quality = 1080
  /\ fnArg.ch.cdnList[1].videoPathList[2].isDefault = 0
  /\ fnRet[1].videoPath = "a2"

\* The outer fetchBatch frame sees an answer with at most 2 records at an
\* index that is neither the paywall boundary nor at the end of the book.
ThrottledStep ==
  /\ pg.pc = "request" /\ pg.mode = "outer" /\ pg.got = -1
  /\ pg'.got \in 0..2
  /\ pg'.currentIdx = pg.currentIdx /\ pg'.fetches = pg.fetches
  /\ pg.currentIdx # pg.savedPayChapterNum
  /\ ~(pg.currentIdx + 5 >= pg.totalChapters /\ pg.totalChapters # 0)

\* It clears both token tiers and asks for a new token.
RecoveryStarted ==
  /\ pg'.pc = "mint" /\ pg'.recoveries = 1
  /\ tokenCache' = NoToken /\ cache' = NoEntry
  /\ proc'[1].pc = "awaitBoot" /\ proc'[1].mctx = "batch"

\* An outer fetch that went through a recovery is over.
RecoveredFetchOver ==
  /\ pg.recoveries = 1
  /\ pg.pc \in {"request", "mint"}
  /\ pg'.pc \in {"d800", "d4000", "returned"} \/ pg'.recoveries = 0

\* A paywall or recovery fetch is in progress.
InRetryFetch == pg.pc = "request" /\ pg.mode \in {"paywall", "recovery"}

TokenCleared ==
  \/ tokenCache # NoToken /\ tokenCache' = NoToken
  \/ cache # NoEntry /\ cache' = NoEntry

EmptyWindowStep ==
  /\ pg.pc = "request" /\ ~pg.first
  /\ pg'.pc \in {"d800", "d4000"}
  /\ pg'.result = pg.result

\* C21: starvation breaker.  A window of the while loop that yields no record
\* is fetched again at the same index; the third such answer in a row moves
\* the index on by 5 and resets the counter.  The index never moves back, no
\* index is fetched by the loop more than 3 times, and the counter is in
\* 0..2 whenever the loop is between two iterations.
C21_StarvationBreaker ==
  [][/\ pg'.retryLoopCount \in 0..2
     /\ pg'.idxFetches <= 3
     /\ pg'.pc # "idle" => pg'.currentIdx >= pg.currentIdx
     /\ EmptyWindowStep =>
          IF pg.retryLoopCount = 2
          THEN /\ pg'.currentIdx = pg.currentIdx + 5
               /\ pg'.retryLoopCount = 0 /\ pg'.pc = "d800"
          ELSE /\ pg'.currentIdx = pg.currentIdx
               /\ pg'.retryLoopCount = pg.retryLoopCount + 1
               /\ pg'.pc = "d4000"
     /\ (pg.pc = "d800" /\ pg'.pc = "request" /\ pg.retryLoopCount > 0)
          => (pg'.lastIdx = pg.lastIdx
                /\ pg'.idxFetches = pg.retryLoopCount + 1)
  ]_vars

\* Window 6 was fetched three times without a record and the loop moved on
\* to window 11.
C21_Witness ==
  /\ pg.pc = "d800" /\ pg.lastIdx = 6 /\ pg.idxFetches = 3
  /\ pg.currentIdx = 11 /\ pg.retryLoopCount = 0
  /\ pg.totalChapters = MaxChapters

\* The recovery fetch of a window (661) is over and brought no record.
FailedWindowStep ==
  /\ pg.pc = "request" /\ pg.mode = "recovery"
  /\ pg'.pc # "request"
  /\ pg'.result = pg.result

\* The records of list are all in the list ret.
Kept(list, ret) ==
  \A i \in 1..Len(list) :
    \E j \in 1..Len(ret) : ret[j].chapterId = list[i].chapterId

\* The promise of batchDownload resolves in this step.
ReturnStep == pg.pc \notin {"returned", "idle"} /\ pg'.pc = "returned"

\* C22 as stated: a window whose recovery fetch fails too does not end the
\* listing: the loop goes on, and what was accumulated is in the final
\* result.
C22_FailedWindowNotFatal ==
  [][/\ FailedWindowStep =>
          (pg'.pc \in {"d800", "d4000"} /\ ~pg'.threw)
     /\ ReturnStep => Kept(pg.result, pg'.ret)
  ]_vars

\* C22, amended: a window of the while loop whose recovery fetch fails too
\* does not end the listing (the loop retries it or moves on, with the
\* accumulated records untouched); the first window failing so ends the
\* listing with the empty list, no later window being known.  Records once
\* accumulated stay accumulated, and they are all in the final result unless
\* the catch block of the operation ran, whose result is the empty list.
C22_FailedLoopWindowNotFatal ==
  [][/\ (FailedWindowStep /\ ~pg.first) =>
          (pg'.pc \in {"d800", "d4000"} /\ ~pg'.threw)
     /\ (FailedWindowStep /\ pg.first) =>
          (pg'.pc = "returned" /\ pg'.ret = <<>> /\ ~pg'.threw)
     /\ pg'.pc # "idle" =>
          /\ Len(pg'.result) >= Len(pg.result)
          /\ SubSeq(pg'.result, 1, Len(pg.result)) = pg.result
     /\ ReturnStep =>
          IF pg'.threw THEN pg'.ret = <<>> ELSE Kept(pg.result, pg'.ret)
  ]_vars

\* Window 6 failed three times, each time in its recovery fetch as well, and
\* the listing returned the six records of the first window.
C22_Witness ==
  /\ pg.pc = "returned" /\ ~pg.threw
  /\ pg.lastIdx = 6 /\ pg.idxFetches = 3
  /\ pg.mode = "recovery" /\ pg.refetches = 1 /\ pg.got = -1
  /\ Len(pg.ret) = 6

\* The chapterIds of a list of records.
Ids(list) == {list[i].chapterId : i \in 1..Len(list)}

\* The windows the while loop asks for when none stays empty: 6, 11, ...
LoopWindows(n) == {i \in 6..n : (i - 6) % 5 = 0}

MintCompleted(p) ==
  /\ proc[p].pc = "awaitBoot" /\ proc'[p] # proc[p]
  /\ nextId' = nextId + 1

\* generateNewToken of p returned the entry of the shared cache in this step.
MintAdopted(p) ==
  /\ proc[p].pc = "mintDelay" /\ proc'[p].pc = "awaitData"
  /\ proc'[p].tokSrc = "shared"

\* C24: concurrent mints, last writer wins.  A mint that completes leaves
\* its own token in memory and in the shared cache, whatever another request
\* put there meanwhile, and its request goes on with that token; a mint that
\* finds an entry in the shared cache on its retry takes that one.  So the
\* two tiers, when both hold a token, hold the same one: that of the mint
\* completed last.
C24_LastMintWins ==
  /\ [](/\ (tokenCache # NoToken /\ cache # NoEntry) => cache.val = tokenCache
        /\ tokenCache.id < nextId /\ cache.val.id < nextId)
  /\ [][\A p \in Procs :
          /\ MintCompleted(p) =>
               /\ tokenCache'.id = nextId
               /\ cache' = cacheSet(tokenCache', CACHE_TTL_TOKEN, now)
               /\ proc'[p].pc = "awaitData"
               /\ proc'[p].sentTok = tokenCache'
          /\ MintAdopted(p) =>
               /\ cache' = cache /\ tokenCache' = cache.val
               /\ proc'[p].sentTok = cache.val
       ]_vars

\* Both requests found no token, both bootstrap calls were in flight at once
\* and both resolved: each request sent its own token, and the two tiers
\* hold the second.
C24_Witness ==
  /\ now = 0
  /\ \A p \in Procs :
       /\ proc[p].pc = "awaitData" /\ proc[p].tokSrc = "minted"
       /\ proc[p].dataCalls = 1 /\ proc[p].bootCalls = 1
  /\ proc[1].sentTok.id = 1 /\ proc[2].sentTok.id = 2
  /\ tokenCache.id = 2 /\ cache.val = tokenCache

\* The catch block of request emptied the token store for p in this step
\* (502 or 503 answered, 414-417).
InvalidatedOnError(p) ==
  /\ proc[p].pc = "awaitData" /\ proc'[p] # proc[p]
  /\ proc'[p].pc = "backoff" /\ proc'[p].err \in {502, 503}

\* C25: invalidation is idempotent.  In every state the program reaches,
\* invalidating leaves both tiers empty and nothing else changed, invalidating
\* again changes nothing more, and invalidating an empty store changes
\* nothing; a request that invalidates an already empty store goes on to its
\* backoff as any other.
C25_InvalidateIdempotent ==
  /\ [](\A p \in Procs :
          /\ invalidate(invalidate(Frame(p))) = invalidate(Frame(p))
          /\ invalidate(Frame(p)).mem = NoToken
          /\ cacheGet(invalidate(Frame(p)).sh, now) = NoToken
          /\ invalidate(Frame(p)).me = proc[p]
          /\ invalidate(Frame(p)).nid = nextId
          /\ (tokenCache = NoToken /\ cache = NoEntry)
               => invalidate(Frame(p)) = Frame(p))
  /\ [][\A p \in Procs :
          InvalidatedOnError(p) =>
            /\ tokenCache' = NoToken /\ cache' = NoEntry
            /\ nextId' = nextId
            /\ \A q \in Procs \ {p} : proc'[q] = proc[q]
       ]_vars

\* Both requests sent a token and both were answered 503: the second answer
\* invalidated a store the first had emptied.
C25_Witness ==
  /\ \A p \in Procs :
       /\ proc[p].pc = "backoff" /\ proc[p].err = 503
       /\ proc[p].attempt = 0 /\ proc[p].dataCalls = 1
       /\ proc[p].sentTok # NoToken
  /\ tokenCache = NoToken /\ cache = NoEntry

\* C26: a stream answer of status 200 without chapter data ends getStreamUrl
\* at once with an error: no delay, no further GET, nothing cached.
C26_StreamNotFoundTerminal ==
  [][(/\ op.pc = "streamGet" /\ op' # op
      /\ op'.last = Reply(200, FALSE))
     => (/\ op'.pc = "thrown"
         /\ op'.calls = op.calls
         /\ respCache' = respCache)
  ]_vars

\* ------------------------------------------------------------------------
\* The HTTP boundary
\* ------------------------------------------------------------------------
\* The exchange completed last is one of GET /download/:bookId whose
\* handler called batchDownload and got its list.
DownloadDone ==
  /\ srv.last.rq.route = "/download/:bookId"
  /\ srv.last.invoked
DownloadMapped ==
  srv.last.res = IF srv.last.out.n = 0
                 THEN Res(404, "NOT_FOUND", -1, -1)
                 ELSE Res(200, "OK", srv.last.out.n, srv.last.out.n)

\* C27 as stated: GET /download/:bookId answers 404 NOT_FOUND exactly when
\* batchDownload returned an empty list, otherwise the success envelope
\* whose meta.total is the number of records returned, and never a success
\* envelope with an empty data list.
C27_DownloadAnswer == DownloadDone => DownloadMapped

\* C27 amended: so it is whenever batchDownload returned before the
\* 30-second timeout of the request answered 408 REQUEST_TIMEOUT; after
\* that the client keeps the 408 whatever the list. A success envelope of
\* the route never has an empty data list.
C27_DownloadAnswerInTime ==
  /\ DownloadDone /\ ~srv.last.late => DownloadMapped
  /\ DownloadDone /\ srv.last.late
       => srv.last.res = Res(408, "REQUEST_TIMEOUT", -1, -1)
  /\ srv.last.rq.route = "/download/:bookId" /\ srv.last.res.status = 200
       => srv.last.res.n > 0
C27_Witness ==
  /\ DownloadDone /\ ~srv.last.late
  /\ srv.last.out.n = 2
  /\ srv.last.res = Res(200, "OK", 2, 2)

\* A parameter that is no number: absent, or not a decimal numeral once the
\* white space around it is dropped.
nonNumeric(x) ==
  \/ x = Undef
  \/ trim(x) = <<>>
  \/ \E i \in 1..Len(trim(x)) : trim(x)[i] \notin Digits
missing(x) == x = Undef \/ x = <<>>
FailsValidation(rq) ==
  CASE rq.route = "/api/search" -> missing(rq.p1)
    [] rq.route = "/api/stream" ->
         missing(rq.p1) \/ missing(rq.p2) \/ nonNumeric(rq.p1) \/ nonNumeric(rq.p2)
    [] rq.route \in PathParamRoutes -> nonNumeric(rq.p1)
    [] OTHER -> FALSE

\* A request arrives in this step and the limiters admit it.
Admitted ==
  /\ srv'.arrivals = srv.arrivals + 1
  /\ srv'.last.res.code # "RATE_LIMIT_EXCEEDED"
ArrivedRq == IF srv'.req # NoRq THEN srv'.req ELSE srv'.last.rq
AnsweredInvalid ==
  /\ srv'.last = Exchange(ArrivedRq, Res(400, "VALIDATION_ERROR", -1, -1),
                          FALSE, NoOutcome, FALSE)
  /\ srv'.req = NoRq
  /\ srv'.inst = srv.inst
  /\ UNCHANGED <<tokenCache, cache, respCache, proc, op, pg>>

\* C28: a request that fails input validation (keyword missing on
\* /api/search; bookId or episode missing or not a number on /api/stream;
\* bookId or id not a number on the detail, chapters, download and category
\* routes) is answered 400 VALIDATION_ERROR and no operation is invoked: no
\* instance is created for its language, nothing is called upstream, token
\* and cache state stay as they are.
C28_InvalidRejected ==
  [][Admitted /\ FailsValidation(ArrivedRq) => AnsweredInvalid]_vars

\* What the code does guarantee: the requests its own validation refuses
\* are answered so.
RefusedUntouched ==
  [][Admitted /\ invalid(ArrivedRq) => AnsweredInvalid]_vars

\* The exchange completed last is one whose operation rejected.
ErrorDone == srv.last.invoked /\ srv.last.out.kind = "rejected"
ByCause(cause) ==
  CASE cause.code = "ECONNABORTED" -> Res(408, "REQUEST_TIMEOUT", -1, -1)
    [] cause.response = 429 -> Res(429, "UPSTREAM_RATE_LIMIT", -1, -1)
    [] OTHER -> Res(500, "INTERNAL_ERROR", -1, -1)

\* C29: the status of an error response reflects the cause of the final
\* upstream failure of the operation: 408 REQUEST_TIMEOUT for a timeout
\* (ECONNABORTED), 429 UPSTREAM_RATE_LIMIT for an upstream 429, and
\* 500 INTERNAL_ERROR for the other failures only.
C29_StatusReflectsCause == ErrorDone => srv.last.res = ByCause(srv.last.out.cause)

\* A request of client ip to GET /download/:bookId arrives in this step.
DownloadArrives(ip) ==
  /\ srv'.arrivals = srv.arrivals + 1
  /\ ArrivedRq.route = "/download/:bookId"
  /\ ArrivedRq.ip = ip
\* Client ip has had DOWNLOAD_MAX requests to the route in the window that
\* is open now.
Exhausted(ip) == srv.dl.hits[ip] >= DOWNLOAD_MAX /\ now < srv.dl.reset[ip]
Refused ==
  /\ srv'.last = Exchange(ArrivedRq, Res(429, "RATE_LIMIT_EXCEEDED", -1, -1),
                          FALSE, NoOutcome, FALSE)
  /\ srv'.req = NoRq
  /\ srv'.inst = srv.inst

\* C30: once 5 requests of one client to /download/:bookId have been let
\* through in a 60-second window, every further one of that client in the
\* window is answered 429 RATE_LIMIT_EXCEEDED and batchDownload is not
\* invoked; until then its requests are let through. The count is the
\* client's own: requests of another client and requests under /api/ leave
\* it as it is, and download requests leave the count of /api/ as it is.
C30_DownloadLimit ==
  [][\A ip \in Ips :
       /\ DownloadArrives(ip) /\ Exhausted(ip) => Refused
       /\ DownloadArrives(ip) /\ ~Exhausted(ip)
            => srv'.req = ArrivedRq /\ srv'.last = NoExchange
       /\ DownloadArrives(ip)
            => /\ srv'.api = srv.api
               /\ \A other \in Ips \ {ip} :
                    /\ srv'.dl.hits[other] = srv.dl.hits[other]
                    /\ srv'.dl.reset[other] = srv.dl.reset[other]
       /\ srv'.arrivals = srv.arrivals + 1 /\ underApi(ArrivedRq.route)
            => srv'.dl = srv.dl]_vars
C30_Witness ==
  /\ srv.last.rq.route = "/download/:bookId"
  /\ srv.last.res = Res(429, "RATE_LIMIT_EXCEEDED", -1, -1)
  /\ srv.dl.hits[srv.last.rq.ip] = DOWNLOAD_MAX + 1
  /\ \E other \in Ips : srv.dl.hits[other] = 1 /\ now < srv.dl.reset[other]
  /\ srv.api.hits[srv.last.rq.ip] > 0

\* ------------------------------------------------------------------------
\* Shutdown and the instance pool
\* ------------------------------------------------------------------------
\* A request is in flight: received and not answered yet.
InFlight == srv.req # NoRq /\ ~srv.sent

GetsInstance == srv.req = NoRq /\ srv'.req # NoRq

\* C32: the pool holds at most one Dramabox instance per language:
\* getDramaboxInstance(lang) constructs one only on the first call for the
\* language, and every later call with that language returns that same
\* instance (and with it its in-memory token); the instances of other
\* languages are left as they are.
C32_OneInstancePerLanguage ==
  /\ [](srv.phase # "exited" =>
          /\ \A l, m \in Langs :
               srv.pool[l] # 0 /\ srv.pool[l] = srv.pool[m] => l = m
          /\ srv.made = Cardinality({l \in Langs : srv.pool[l] # 0})
          /\ srv.inst = {l \in Langs : srv.pool[l] # 0})
  /\ [][GetsInstance =>
          LET l == srv'.req.lang IN
          /\ srv'.dram = srv'.pool[l]
          /\ srv'.dram # 0
          /\ IF srv.pool[l] = 0
             THEN srv'.made = srv.made + 1
             ELSE srv'.made = srv.made /\ srv'.pool[l] = srv.pool[l]
          /\ \A m \in Langs \ {l} : srv'.pool[m] = srv.pool[m]]_vars
  /\ [][srv'.made # srv.made => GetsInstance]_vars
C32_Witness ==
  /\ srv.arrivals = 3
  /\ srv.req # NoRq
  /\ srv.made = 2
  /\ srv.last = NoExchange
  /\ srv.dram = srv.pool[srv.req.lang]
  /\ srv.dram = 1

\* ------------------------------------------------------------------------
\* The windows of batchDownload
\* ------------------------------------------------------------------------
\* The index of the fetchBatch frame that awaits its request.
RequestedIndex ==
  IF pg.mode = "paywall" THEN pg.savedPayChapterNum ELSE pg.currentIdx
LoopIndex(i) == \E k \in 0..MaxChapters : i = 6 + 5 * k /\ i <= pg.totalChapters

\* C33: every window index the outer flow of batchDownload requests is 1,
\* or 6 + 5k with 6 + 5k <= totalChapters; the index never decreases and
\* advances by exactly 5; the only other index requested is the paywall
\* boundary, during a recovery; when the first window yields no data no
\* further window is requested and the result is the empty list.
C33_WindowIndices ==
  /\ [](pg.pc = "request" /\ pg.mode # "paywall" =>
          IF pg.first THEN RequestedIndex = 1 ELSE LoopIndex(RequestedIndex))
  /\ [](pg.pc = "request" /\ pg.mode = "paywall" =>
          /\ RequestedIndex = pg.savedPayChapterNum
          /\ pg.savedPayChapterNum > 0
          /\ pg.recoveries > 0)
  /\ [][pg.pc # "idle" /\ pg'.pc # "idle" /\ pg'.currentIdx # pg.currentIdx
          => pg'.currentIdx = pg.currentIdx + 5]_vars
  /\ [](pg.first /\ pg.pc \in {"returned", "rejected"} =>
          pg.ret = <<>> /\ pg.fetches = 0)
  /\ [](pg.first /\ pg.pc # "idle" => pg.currentIdx = 1 /\ pg.fetches = 0)
C33_Witness ==
  /\ pg.pc = "request" /\ pg.mode = "outer"
  /\ RequestedIndex = 11
  /\ pg.totalChapters = MaxChapters
  /\ pg.idxFetches = 2

\* ------------------------------------------------------------------------
\* The token store under the webfic surface and under concurrency
\* ------------------------------------------------------------------------
\* Process p takes a step of a call on the webfic surface.
WebficStep(p) == proc'[p] # proc[p] /\ proc'[p].webfic /\ proc'[p].pc # "idle"

\* C34: a request on the webfic surface never touches the token store:
\* whatever the outcome of the call (success, transport error, any HTTP
\* status, 502 and 503 among them, retries exhausted), the in-memory token
\* and the shared-cache entry are after each of its steps what they were
\* before, and no bootstrap call is issued.
C34_WebficLeavesTokens ==
  [][\A p \in Procs :
       WebficStep(p) => /\ tokenCache' = tokenCache
                        /\ cache' = cache
                        /\ proc'[p].pc # "awaitBoot"
                        /\ proc'[p].bootCalls = 0]_vars

\* What holds of the code: it issues no bootstrap call there and touches
\* the store only when the answer is 502 or 503 and a retry follows.
WebficClearsOnlyOn5023 ==
  [][\A p \in Procs :
       WebficStep(p) =>
         /\ proc'[p].pc # "awaitBoot" /\ proc'[p].bootCalls = 0
         /\ (tokenCache' # tokenCache \/ cache' # cache) =>
              /\ proc'[p].err \in {502, 503} /\ proc'[p].pc = "backoff"
              /\ tokenCache' = NoToken /\ cache' = NoEntry]_vars

\* C35: under every interleaving of concurrent requests of one language, a
\* failure handler discards only the token its own failed attempt was sent
\* with: a token a concurrent request minted after that attempt was sent
\* is never cleared by it, from the in-memory slot or from the shared cache.
C35_DiscardsOwnTokenOnly ==
  [][\A p \in Procs :
       InvalidatedOnError(p) =>
         /\ tokenCache.id \in {0, proc[p].sentTok.id}
         /\ cache.val.id \in {0, proc[p].sentTok.id}]_vars

\* getToken() returned to p in this step: p sends its data call with the
\* token it got.
GetTokenReturned(p) ==
  /\ proc'[p] # proc[p]
  /\ proc'[p].pc = "awaitData"
  /\ proc'[p].dataCalls = proc[p].dataCalls + 1
  /\ ~proc'[p].webfic
\* Token k has been handed out by the upstream and is in neither tier.
Gone(k) == k < nextId /\ tokenCache.id # k /\ cache.val.id # k
\* What generateNewToken would adopt now (217-222).
Adoptable ==
  IF cacheGet(cache, now).id # 0 /\ cacheGet(cache, now).expiry > now
  THEN cacheGet(cache, now) ELSE NoToken
AdoptableIsValid == Adoptable # NoToken => isTokenValid(Adoptable, now)

\* C36: every token getToken() returns has expiry > now + 5 minutes when it
\* is returned, also when it is adopted from the shared cache, whose test
\* is only expiry > now; and a token that has been invalidated is never
\* returned again by a later getToken or generateNewToken, under any
\* interleaving: invalidation takes it out of both tiers, a token that is
\* in neither tier never comes back, and what is returned is what the
\* in-memory slot holds.
C36_ReturnedTokenFresh ==
  /\ []AdoptableIsValid
  /\ [][\A p \in Procs :
          GetTokenReturned(p) =>
            /\ proc'[p].sentTok.id # 0
            /\ proc'[p].sentTok.expiry > now + TOKEN_MARGIN_MS
            /\ proc'[p].sentTok = tokenCache'
            /\ \A k \in 1..(MaxTokens + 1) :
                 Gone(k) => proc'[p].sentTok.id # k]_vars
  /\ [][\A p \in Procs :
          InvalidatedOnError(p) =>
            \A k \in {tokenCache.id, cache.val.id} \ {0} :
              k < nextId' /\ tokenCache'.id # k /\ cache'.val.id # k]_vars
  /\ [][\A k \in 1..(MaxTokens + 1) :
          Gone(k) => (k < nextId' /\ tokenCache'.id # k /\ cache'.val.id # k)
       ]_vars
\* A request was answered 503 and cleared token 1; it now sends again with
\* a token it adopted from the shared cache, minted meanwhile by the other.
C36_Witness ==
  \E p \in Procs :
    /\ proc[p].pc = "awaitData" /\ proc[p].tokSrc = "shared"
    /\ proc[p].sentTok = tokenCache
    /\ proc[p].sentTok.id = 2
    /\ proc[p].err = 503
====
